---- MODULE Spec2Model ----
(***************************************************************************)
(* Keyboarder: the editor store (project + undo/redo history), the         *)
(* free-space placement of addKey and the cut-sheet reflow.                *)
(*                                                                         *)
(* Lengths are integers in units of 1/20 mm (13.5 mm = 270, 0.3 mm = 6),   *)
(* so every length literal of the source is an exact integer here.         *)
(*                                                                         *)
(* A project value is a record                                             *)
(*   [root, paperId, layoutId, paper, layout, updatedAt]                   *)
(* root/paperId/layoutId are the identities of the JavaScript objects      *)
(* (the project object, its .paper and its .layout with everything below   *)
(* it); paper/layout/updatedAt are their contents.  Two projects are       *)
(* structurally identical when their contents agree (Content).             *)
(***************************************************************************)
EXTENDS Integers, Sequences, FiniteSets, TLC

VARIABLES
  project,    \* EditorState.project
  past,       \* EditorState.history.past   (oldest first)
  future,     \* EditorState.history.future (next redo first)
  nextOid,    \* next unused object identity (allocation counter of the heap)
  clock,      \* number of store actions issued so far; source of updatedAt / nanoid
  lastOp,     \* history variable: the store action that ran last
  before,     \* history variable: project, past and future before lastOp
  run,        \* history variable: the current mutate* undo* redo* episode
  cutOut,     \* the cut-sheet arrangement last derived, with what it was derived from
  selectedKeys, \* EditorState.selectedKeys
  pdf,        \* the exportProjectToPdf call in progress or last finished
  svg,        \* what the last exportProjectToSvg call emitted
  canvas,     \* what CanvasStage drew at its last render
  snapToGrid, \* EditorState.snapToGrid
  gridSize,   \* EditorState.gridSize
  built       \* the key list a template builder returned last, with its arguments

vars == <<project, past, future, nextOid, clock, lastOp, before, run, cutOut,
          selectedKeys, pdf, svg, canvas, snapToGrid, gridSize, built>>

\* the selection and the renderers' outputs
viewVars == <<selectedKeys, pdf, svg, canvas, built>>

\* the snap settings of the store
snapVars == <<snapToGrid, gridSize>>

(***************************************************************************)
(* Bounds of the exploration                                               *)
(***************************************************************************)
\* history-wrapped actions issued in one behaviour of SpecHistory
MaxMutations == 32
\* in SpecHistory every kind of action is explored while clock < RichWindow;
\* later a mutation only changes the layout and only extends the run of
\* consecutive mutations it is part of (undo and redo stay unrestricted)
RichWindow == 2

(***************************************************************************)
(* Program constants                                                       *)
(***************************************************************************)
\* store.ts:82   past: [...state.history.past.slice(-30), snapshot]
pastKeepOnPush == 30
\* store.ts:317  future: [project, ...history.future].slice(0, 30)
futureCapOnUndo == 30
\* store.ts:328  past: [...history.past, project].slice(-30)
pastCapOnRedo == 30

(***************************************************************************)
(* Array helpers (Array.prototype.slice with the two shapes the store uses)*)
(***************************************************************************)
\* s.slice(-n): the last n elements
sliceLast(s, n) ==
  IF Len(s) <= n THEN s ELSE SubSeq(s, Len(s) - n + 1, Len(s))

\* s.slice(0, n): the first n elements
sliceFirst(s, n) ==
  IF Len(s) <= n THEN s ELSE SubSeq(s, 1, n)

\* s.slice(0, -1)
dropLast(s) ==
  IF Len(s) = 0 THEN s ELSE SubSeq(s, 1, Len(s) - 1)

\* s.slice(1)
dropFirst(s) ==
  IF Len(s) = 0 THEN s ELSE SubSeq(s, 2, Len(s))

(***************************************************************************)
(* Project values                                                          *)
(***************************************************************************)
Content(p) == [paper |-> p.paper, layout |-> p.layout, updatedAt |-> p.updatedAt]

Objects(p) == {p.root, p.paperId, p.layoutId}

\* JSON.parse(JSON.stringify(p)): the contents survive (a project holds only
\* finite numbers, strings, booleans and arrays of those), every object is new.
jsonCloneAliased(p, oid) == p

jsonClone(p, oid) ==
  [root |-> oid, paperId |-> oid + 1, layoutId |-> oid + 2,
   paper |-> p.paper, layout |-> p.layout, updatedAt |-> p.updatedAt]

produceInPlace(base, draftResult, oid) ==
  [base EXCEPT !.paper = draftResult.paper, !.layout = draftResult.layout,
               !.updatedAt = draftResult.updatedAt]

\* immer produce(base, updater).  draftResult = [paper, layout, updatedAt,
\* touched]: the draft's contents after the updater ran and the set of parts
\* ("root", "paper", "layout") it assigned into.  Untouched parts are shared
\* with base; an updater that assigned nothing yields base itself.
produce(base, draftResult, oid) ==
  IF draftResult.touched = {} THEN base
  ELSE [root      |-> oid,
        paperId   |-> IF "paper" \in draftResult.touched THEN oid + 1 ELSE base.paperId,
        layoutId  |-> IF "layout" \in draftResult.touched THEN oid + 2 ELSE base.layoutId,
        paper     |-> draftResult.paper,
        layout    |-> draftResult.layout,
        updatedAt |-> draftResult.updatedAt]

\* identities one withHistory call may consume: 3 for the snapshot, 3 for produce
OidsPerCall == 6

(***************************************************************************)
(* withHistory / undo / redo as functions of the store state               *)
(***************************************************************************)
withHistoryPastFirst30(pastNow, snapshot) ==
  Append(sliceFirst(pastNow, pastKeepOnPush), snapshot)

\* store.ts:82
withHistoryPast(pastNow, snapshot) ==
  Append(sliceLast(pastNow, pastKeepOnPush), snapshot)

withHistoryFutureKept(futureNow) == futureNow

\* store.ts:83
withHistoryFuture(futureNow) == <<>>

undoProjectOldest(pastNow) == pastNow[1]

\* store.ts:311,314  previous = history.past[history.past.length - 1]
undoProject(pastNow) == pastNow[Len(pastNow)]

undoFutureAppend(projectNow, futureNow) ==
  sliceFirst(Append(futureNow, projectNow), futureCapOnUndo)

\* store.ts:317
undoFuture(projectNow, futureNow) ==
  sliceFirst(<<projectNow>> \o futureNow, futureCapOnUndo)

\* store.ts:316
undoPast(pastNow) == dropLast(pastNow)

\* store.ts:323,326  next = history.future[0]
redoProject(futureNow) == futureNow[1]

\* store.ts:328
redoPast(pastNow, projectNow) ==
  sliceLast(Append(pastNow, projectNow), pastCapOnRedo)

\* store.ts:329
redoFuture(futureNow) == dropFirst(futureNow)

\* store.ts:312  if (!previous) return;
undoHasPrevious(pastNow) == Len(pastNow) > 0

\* store.ts:324  if (!next) return;
redoHasNext(futureNow) == Len(futureNow) > 0

undoStepPushesFirst(projectNow, pastNow, futureNow) ==
  IF undoHasPrevious(pastNow)
  THEN [project |-> undoProject(pastNow), past |-> undoPast(pastNow),
        future |-> undoFuture(projectNow, futureNow)]
  ELSE [project |-> projectNow, past |-> pastNow,
        future |-> undoFuture(projectNow, futureNow)]

\* store.ts:309-320  the store after undo()
undoStep(projectNow, pastNow, futureNow) ==
  IF undoHasPrevious(pastNow)
  THEN [project |-> undoProject(pastNow), past |-> undoPast(pastNow),
        future |-> undoFuture(projectNow, futureNow)]
  ELSE [project |-> projectNow, past |-> pastNow, future |-> futureNow]

\* store.ts:321-332  the store after redo()
redoStep(projectNow, pastNow, futureNow) ==
  IF redoHasNext(futureNow)
  THEN [project |-> redoProject(futureNow), past |-> redoPast(pastNow, projectNow),
        future |-> redoFuture(futureNow)]
  ELSE [project |-> projectNow, past |-> pastNow, future |-> futureNow]

(***************************************************************************)
(* History variables                                                       *)
(***************************************************************************)
\* run = [phase, trail, pos]: the episode "mutations, then undos, then redos"
\* the store is in.
\*   trail  the Content before the first and after each of the consecutive
\*          history-wrapped mutations that opened the episode
\*   pos    trail[pos] is where the undo/redo calls made since should have
\*          brought the project: Len(trail) less the undos plus the redos
\*   phase  "mut": only the mutations ran; "undo": followed by undo calls
\*          only; "redo": those followed by redo calls only; "idle": no
\*          episode (anything else happened)
\*   within TRUE while the undo calls of the episode number at most
\*          futureCapOnUndo
IdleRun == [phase |-> "idle", trail |-> <<>>, pos |-> 0, within |-> TRUE]

RunAfterMutation(p, pNext) ==
  IF run.phase = "mut"
  THEN [run EXCEPT !.trail = Append(run.trail, Content(pNext)),
                   !.pos = run.pos + 1]
  ELSE [phase |-> "mut", trail |-> <<Content(p), Content(pNext)>>, pos |-> 2,
        within |-> TRUE]

RunAfterUndo ==
  IF run.phase \in {"mut", "undo"} /\ run.pos > 1
  THEN [run EXCEPT !.phase = "undo", !.pos = run.pos - 1,
                   !.within = (Len(run.trail) - (run.pos - 1) <= futureCapOnUndo)]
  ELSE IdleRun

PreState == [project |-> project, past |-> past, future |-> future]

\* the bookkeeping every store action op does on the history variables
Track(op) ==
  /\ lastOp' = op
  /\ before' = PreState

RunAfterRedo ==
  IF run.phase \in {"undo", "redo"} /\ run.pos < Len(run.trail)
  THEN [run EXCEPT !.phase = "redo", !.pos = run.pos + 1]
  ELSE IdleRun

\* store.ts:95  gridSize: 2 (mm)
defaultGridSize == 40

\* no template built yet
NoBuilt == [template |-> "none", keys |-> <<>>]

\* nothing selected, nothing exported, nothing drawn yet
IdlePdf == [status |-> "idle", k |-> 0, e |-> 0, ops |-> <<>>]
NoSvg == [done |-> FALSE, ops |-> <<>>]
NoCanvas == [done |-> FALSE, ops |-> <<>>]
InitView ==
  /\ selectedKeys = <<>>
  /\ pdf = IdlePdf
  /\ svg = NoSvg
  /\ canvas = NoCanvas
  /\ snapToGrid = TRUE
  /\ gridSize = defaultGridSize
  /\ built = NoBuilt

NoCut == [by |-> "none", viewMode |-> "layout", paper |-> 0, keys |-> <<>>, out |-> <<>>]

(***************************************************************************)
(* Store actions                                                           *)
(***************************************************************************)
\* store.ts:60-73, 90-91  defaultProject(), history: { past: [], future: [] }
\* (abstract contents: paper and layout are version stamps)
defaultProjectAbstract ==
  [root |-> 0, paperId |-> 1, layoutId |-> 2, paper |-> 0, layout |-> 0, updatedAt |-> 0]

\* store.ts:75-87  withHistory(set, get, updater)
withHistoryStore(draftResult) ==
  /\ project' = produce(project, draftResult, nextOid + 3)
  /\ past' = withHistoryPast(past, jsonClone(project, nextOid))
  /\ future' = withHistoryFuture(future)
  /\ nextOid' = nextOid + OidsPerCall
  /\ clock' = clock + 1
  /\ run' = RunAfterMutation(project, project')

\* withHistory with an updater that touches nothing but the draft
withHistory(draftResult) ==
  /\ withHistoryStore(draftResult)
  /\ UNCHANGED <<cutOut, viewVars, snapVars>>

\* The updaters of the store, up to what they assign.  "paper": updatePaper
\* (store.ts:103-112); "layout": addKey, removeSelected, moveSelectedKeys,
\* duplicateRow/Column, nudgeSelected, a found updateKey ... (they change
\* draft.layout and draft.updatedAt); "both": the apply*Template actions
\* (store.ts:231-277); "none": an updater that returns before assigning
\* (updateKey / addElementToKey with an unknown id, store.ts:160-176).
UpdaterKinds == {"paper", "layout", "both", "none"}

abstractUpdater(kind) ==
  [paper     |-> IF kind \in {"paper", "both"} THEN clock + 1 ELSE project.paper,
   layout    |-> IF kind \in {"layout", "both"} THEN clock + 1 ELSE project.layout,
   updatedAt |-> IF kind = "none" THEN project.updatedAt ELSE clock + 1,
   touched   |-> CASE kind = "paper"  -> {"root", "paper"}
                   [] kind = "layout" -> {"root", "layout"}
                   [] kind = "both"   -> {"root", "paper", "layout"}
                   [] OTHER           -> {}]

Mutate(kind) ==
  /\ clock < MaxMutations
  /\ clock >= RichWindow => (kind = "layout" /\ future = <<>> /\ run.phase = "mut")
  /\ withHistory(abstractUpdater(kind))
  /\ Track("mutate")

\* store.ts:309-320
undo ==
  /\ project' = undoStep(project, past, future).project
  /\ past' = undoStep(project, past, future).past
  /\ future' = undoStep(project, past, future).future
  /\ Track("undo")
  /\ run' = RunAfterUndo
  /\ UNCHANGED <<nextOid, clock, cutOut, viewVars, snapVars>>

\* store.ts:321-332
redo ==
  /\ project' = redoStep(project, past, future).project
  /\ past' = redoStep(project, past, future).past
  /\ future' = redoStep(project, past, future).future
  /\ Track("redo")
  /\ run' = RunAfterRedo
  /\ UNCHANGED <<nextOid, clock, cutOut, viewVars, snapVars>>

\* store.ts:96-102  setProject(project): a project object built by the caller
\* (Sidebar.tsx:34 "clear layout", part_000:198 a loaded file)
setProjectTo(p) ==
  /\ project' = p
  /\ past' = <<>>
  /\ future' = <<>>
  /\ Track("setProject")
  /\ run' = IdleRun
  /\ snapToGrid' = TRUE
  /\ gridSize' = defaultGridSize
  /\ UNCHANGED <<cutOut, viewVars>>

SetProjectAbstract ==
  /\ clock < RichWindow
  /\ setProjectTo([root |-> nextOid, paperId |-> nextOid + 1, layoutId |-> nextOid + 2,
                   paper |-> clock + 1, layout |-> clock + 1, updatedAt |-> clock + 1])
  /\ nextOid' = nextOid + 3
  /\ clock' = clock + 1

InitHistory ==
  /\ project = defaultProjectAbstract
  /\ past = <<>>
  /\ future = <<>>
  /\ nextOid = 3
  /\ clock = 0
  /\ lastOp = "init"
  /\ before = [project |-> defaultProjectAbstract, past |-> <<>>, future |-> <<>>]
  /\ run = IdleRun
  /\ cutOut = NoCut
  /\ InitView

NextHistory ==
  \/ \E kind \in UpdaterKinds : Mutate(kind)
  \/ undo
  \/ redo
  \/ SetProjectAbstract

SpecHistory == InitHistory /\ [][NextHistory]_vars

(***************************************************************************)
(* Claims about the history manager (checked under SpecHistory)            *)
(***************************************************************************)
Entries == {past[i] : i \in 1..Len(past)} \cup {future[i] : i \in 1..Len(future)}

\* C1 (as stated): for every N >= 1, after N consecutive history-wrapped
\* mutations P0 -> ... -> PN, N calls of undo make the project equal to P0,
\* and N calls of redo after them make it equal to PN.
C1_UndoRedoAnyN ==
  /\ run.phase = "undo" => Content(project) = run.trail[run.pos]
  /\ (run.phase = "redo" /\ run.pos = Len(run.trail))
       => Content(project) = run.trail[Len(run.trail)]

\* C1 (amended): the same for every N with 1 <= N <= 30, the depth the
\* future stack is capped at.
C1_UndoRedoUpToCap ==
  /\ (run.phase = "undo" /\ run.within) => Content(project) = run.trail[run.pos]
  /\ (run.phase = "redo" /\ run.within /\ run.pos = Len(run.trail))
       => Content(project) = run.trail[Len(run.trail)]

\* a full round trip: N mutations, N undos, N redos, with the past stack at
\* the depth only a run of more than 30 mutations gives it
C1_Witness ==
  /\ run.phase = "redo" /\ run.within /\ run.pos = Len(run.trail)
  /\ lastOp = "redo" /\ Len(before.future) = 1 /\ Len(past) = pastCapOnRedo
  /\ Len(run.trail) > pastKeepOnPush + 1

\* C2: past and future each hold at most 30 snapshots in every reachable
\* state of the store.
C2_StacksAtMost30 == Len(past) <= 30 /\ Len(future) <= 30

\* C3: every history-wrapped mutating action ends with future empty and with
\* the top of past equal to the project as it was before the action.
C3_MutationPushesAndClears ==
  lastOp = "mutate" =>
    /\ future = <<>>
    /\ past # <<>>
    /\ Content(past[Len(past)]) = Content(before.project)

\* a mutation issued after an undo, with redo states pending
C3_Witness == lastOp = "mutate" /\ before.future # <<>> /\ Len(past) = 1

\* C4: with past non-empty, undo immediately followed by redo yields a
\* project structurally identical to the one before the undo.
C4_UndoThenRedo ==
  [][(lastOp = "undo" /\ before.past # <<>> /\ lastOp' = "redo")
       => Content(project') = Content(before.project)]_vars

\* the redo of such a pair has run, in an episode that began with mutations
C4_Witness ==
  /\ lastOp = "redo" /\ run.phase = "redo" /\ before.future # <<>>
  /\ Len(before.future) = futureCapOnUndo

\* C5: undo with an empty past and redo with an empty future leave project,
\* past and future unchanged.
C5_UnderflowIsNoOp ==
  ((lastOp = "undo" /\ before.past = <<>>) \/ (lastOp = "redo" /\ before.future = <<>>))
    => (project = before.project /\ past = before.past /\ future = before.future)

\* undo called once more after the undos emptied past
C5_Witness == lastOp = "undo" /\ before.past = <<>> /\ before.future # <<>>

\* C6: no entry of past or future is the live project object or shares a
\* sub-object with it.
C6_SnapshotsIsolated ==
  \A e \in Entries : Objects(e) \cap Objects(project) = {}

\* the live project shares its paper object with the project it was produced
\* from, while snapshots sit on both stacks' side of the history
C6_Witness ==
  /\ lastOp = "mutate" /\ past # <<>>
  /\ project.root # before.project.root
  /\ project.paperId = before.project.paperId
  /\ before.future # <<>>

(***************************************************************************)
(* The editor store on real layouts: keys, addKey's placement scan         *)
(***************************************************************************)
\* history-wrapped actions and setProject calls in one behaviour of Spec
MaxEdits == 3
\* keys a layout holds at most in Spec
MaxKeys == 3

\* keys.ts:4  DEFAULT_KEY_SIZE = 13.5 mm
DEFAULT_KEY_SIZE == 270
\* keys.ts:5  DEFAULT_KEY_GAP = 2 mm
DEFAULT_KEY_GAP == 40
\* store.ts:135  maxX = 800 mm
maxX == 16000
\* store.ts:136  maxY = 800 mm
maxY == 16000

\* nanoid(): an id that no earlier call returned; n counts the calls so far
nanoid(n) == n + 1

\* new Date().toISOString() at the n-th store action
nowStamp(n) == n + 1

\* key.f ?? dflt on a Partial<KeyModel>
orDefault(input, f, dflt) == IF f \in DOMAIN input THEN input[f] ELSE dflt

\* { ...a, ...b } and Object.assign(a, b)
assign(a, b) ==
  [f \in DOMAIN a \cup DOMAIN b |-> IF f \in DOMAIN b THEN b[f] ELSE a[f]]

\* keys.ts:9-23
createKey(input, freshId) ==
  [id           |-> orDefault(input, "id", freshId),
   x            |-> input.x,
   y            |-> input.y,
   width        |-> input.width,
   height       |-> input.height,
   keyType      |-> orDefault(input, "keyType", "rect"),
   rotation     |-> orDefault(input, "rotation", 0),
   padding      |-> orDefault(input, "padding", 40),
   cornerRadius |-> orDefault(input, "cornerRadius", 40),
   background   |-> orDefault(input, "background", "transparent"),
   elements     |-> orDefault(input, "elements", <<>>)]

collidesNoBuffer(keys, width, height, x, y) ==
  \E i \in 1..Len(keys) :
    ~ \/ x + width <= keys[i].x
      \/ keys[i].x + keys[i].width <= x
      \/ y + height <= keys[i].y
      \/ keys[i].y + keys[i].height <= y

\* store.ts:120-129
collides(keys, width, height, x, y) ==
  \E i \in 1..Len(keys) :
    ~ \/ x + width + DEFAULT_KEY_GAP <= keys[i].x
      \/ keys[i].x + keys[i].width + DEFAULT_KEY_GAP <= x
      \/ y + height + DEFAULT_KEY_GAP <= keys[i].y
      \/ keys[i].y + keys[i].height + DEFAULT_KEY_GAP <= y

placeInitLastCell == [x |-> maxX, y |-> maxY, found |-> FALSE]

\* store.ts:131-137  let placeX = 0; let placeY = 0; ... let found = false;
placeInit == [x |-> 0, y |-> 0, found |-> FALSE]

\* the first value a loop that counts upwards reaches in S
firstOf(S) == CHOOSE m \in S : \A n \in S : m <= n

\* store.ts:139  the values x takes in for (let x = 0; x < maxX; x += stepX),
\* counted from x on
scanColumns(x, stepX) == {x + i * stepX : i \in 0..((maxX - 1 - x) \div stepX)}

\* store.ts:139-146  the inner loop, from column x on: it breaks at the first
\* candidate that does not collide
scanRowFrom(keys, width, height, x, y) ==
  LET free == {c \in scanColumns(x, width + DEFAULT_KEY_GAP) :
                 ~collides(keys, width, height, c, y)}
  IN  IF free = {} THEN placeInit
      ELSE [x |-> firstOf(free), y |-> y, found |-> TRUE]

scanRowSkipsOrigin(keys, width, height, y) ==
  scanRowFrom(keys, width, height, width + DEFAULT_KEY_GAP, y)

\* store.ts:139  for (let x = 0; x < maxX; x += stepX)
scanRow(keys, width, height, y) == scanRowFrom(keys, width, height, 0, y)

\* store.ts:138  the values y takes in for (let y = 0; y < maxY; y += stepY),
\* counted from y on
scanRows(y, stepY) == {y + j * stepY : j \in 0..((maxY - 1 - y) \div stepY)}

\* store.ts:138-147  the outer loop, from row y on: it stops after the first
\* row in which the inner loop found a place
scanRowsFrom(keys, width, height, y) ==
  LET hit == {r \in scanRows(y, height + DEFAULT_KEY_GAP) :
                scanRow(keys, width, height, r).found}
  IN  IF hit = {} THEN placeInit
      ELSE scanRow(keys, width, height, firstOf(hit))

\* store.ts:131-147  the place addKey settles on
findPlace(keys, width, height) == scanRowsFrom(keys, width, height, 0)

\* what an updater left in the draft: its contents and the parts immer saw
\* change (an assignment of an equal value is no change; stamped: the
\* updater reached draft.updatedAt = new Date().toISOString())
draftOf(paper, layout, stamped) ==
  [paper     |-> paper,
   layout    |-> layout,
   updatedAt |-> IF stamped THEN nowStamp(clock) ELSE project.updatedAt,
   touched   |-> (IF stamped THEN {"root"} ELSE {})
                 \cup (IF paper # project.paper THEN {"root", "paper"} ELSE {})
                 \cup (IF layout # project.layout THEN {"root", "layout"} ELSE {})]

\* store.ts:113-159  the updater of addKey(key)
addKeyUpdater(key) ==
  LET width  == orDefault(key, "width", DEFAULT_KEY_SIZE)
      height == orDefault(key, "height", DEFAULT_KEY_SIZE)
      place  == findPlace(project.layout.keys, width, height)
      made   == createKey(assign(key, [x |-> place.x, y |-> place.y,
                                       width |-> width, height |-> height]),
                          nanoid(clock))
  IN draftOf(project.paper,
             [project.layout EXCEPT !.keys = Append(@, made)],
             TRUE)

\* draft.layout.keys.find((k) => k.id === id): its index, 0 when there is none
findKey(keys, id) ==
  IF \E i \in 1..Len(keys) : keys[i].id = id
  THEN CHOOSE i \in 1..Len(keys) :
         keys[i].id = id /\ \A j \in 1..(i - 1) : keys[j].id # id
  ELSE 0

\* store.ts:160-167  the updater of updateKey(id, patch)
updateKeyUpdater(id, patch) ==
  LET keys == project.layout.keys
      at   == findKey(keys, id)
  IN IF at = 0
     THEN draftOf(project.paper, project.layout, FALSE)
     ELSE draftOf(project.paper,
                  [project.layout EXCEPT !.keys[at] = assign(keys[at], patch)],
                  TRUE)

RECURSIVE movedKeys(_, _)
\* store.ts:200-206  positions.forEach(...)
movedKeys(keys, positions) ==
  IF positions = <<>> THEN keys
  ELSE LET pos == Head(positions)
           at  == findKey(keys, pos.id)
       IN movedKeys(IF at = 0 THEN keys
                    ELSE [keys EXCEPT ![at] = assign(keys[at], [x |-> pos.x, y |-> pos.y])],
                    Tail(positions))

\* store.ts:198-208  the updater of moveSelectedKeys(positions)
moveSelectedKeysUpdater(positions) ==
  draftOf(project.paper,
          [project.layout EXCEPT !.keys = movedKeys(@, positions)],
          TRUE)

\* store.ts:60-73  defaultProject(), with blankLayout('Macro Pad') (store.ts:52-58)
defaultProject ==
  [root |-> 0, paperId |-> 1, layoutId |-> 2,
   paper |-> [size |-> "A4", orientation |-> "portrait", marginMm |-> 120, dpi |-> 300],
   layout |-> [name |-> "Macro Pad", keys |-> <<>>],
   updatedAt |-> 0]

\* a project file as loadProject parses it (part_000:190-205): two 18 x 18 mm
\* keys at (0, 0) and (20, 0)
loadedTwoKeys(oid) ==
  [root |-> oid, paperId |-> oid + 1, layoutId |-> oid + 2,
   paper |-> [size |-> "A4", orientation |-> "portrait", marginMm |-> 120, dpi |-> 300],
   layout |-> [name |-> "Two keys",
               keys |-> << createKey([x |-> 0, y |-> 0, width |-> 360, height |-> 360], 1001),
                           createKey([x |-> 400, y |-> 0, width |-> 360, height |-> 360], 1002) >>],
   updatedAt |-> 0]

(***************************************************************************)
(* Inputs of the store actions explored in Spec                            *)
(***************************************************************************)
\* addKey() as the sidebar calls it (Sidebar.tsx:113) and addKey with a size
AddKeyInputs == { [f \in {} |-> 0], [width |-> 360, height |-> 360] }

\* Inspector width/height edits (importers.ts:413-421): a key as wide as the
\* scan area, and one that also is as tall
UpdateKeyPatches == { [width |-> maxX], [width |-> maxX, height |-> maxY] }

\* where a drag drops a key: off the placement grid, 14 mm from the origin
MovePositions == { [x |-> 280, y |-> 0] }

\* an id no key has
UnknownId == 0

KeyIds == {project.layout.keys[i].id : i \in 1..Len(project.layout.keys)}

addKey(key) ==
  /\ clock < MaxEdits
  /\ Len(project.layout.keys) < MaxKeys
  /\ withHistory(addKeyUpdater(key))
  /\ Track("addKey")

updateKey(id, patch) ==
  /\ clock < MaxEdits
  /\ withHistory(updateKeyUpdater(id, patch))
  /\ Track("updateKey")

moveSelectedKeys(positions) ==
  /\ clock < MaxEdits
  /\ withHistory(moveSelectedKeysUpdater(positions))
  /\ Track("moveSelectedKeys")

\* part_000:190-205  loadProject -> setProject(parsed)
setProject ==
  /\ clock < MaxEdits
  /\ setProjectTo(loadedTwoKeys(nextOid))
  /\ nextOid' = nextOid + 3
  /\ clock' = clock + 1

Init ==
  /\ project = defaultProject
  /\ past = <<>>
  /\ future = <<>>
  /\ nextOid = 3
  /\ clock = 0
  /\ lastOp = "init"
  /\ before = [project |-> defaultProject, past |-> <<>>, future |-> <<>>]
  /\ run = IdleRun
  /\ cutOut = NoCut
  /\ InitView

Next ==
  \/ \E key \in AddKeyInputs : addKey(key)
  \/ \E id \in KeyIds \cup {UnknownId}, patch \in UpdateKeyPatches : updateKey(id, patch)
  \/ \E id \in KeyIds, pos \in MovePositions :
       moveSelectedKeys(<< [id |-> id, x |-> pos.x, y |-> pos.y] >>)
  \/ setProject
  \/ undo
  \/ redo

Spec == Init /\ [][Next]_vars

(***************************************************************************)
(* Claims about the placement of addKey (checked under Spec)               *)
(***************************************************************************)
RectOf(k) == [x |-> k.x, y |-> k.y, w |-> k.width, h |-> k.height]

Expanded(r, g) == [x |-> r.x - g, y |-> r.y - g, w |-> r.w + 2 * g, h |-> r.h + 2 * g]

\* the two rectangles share interior points
Overlap(a, b) ==
  /\ a.x < b.x + b.w
  /\ b.x < a.x + a.w
  /\ a.y < b.y + b.h
  /\ b.y < a.y + a.h

NonOverlapping(keys) ==
  \A i, j \in 1..Len(keys) : i < j => ~Overlap(RectOf(keys[i]), RectOf(keys[j]))

\* the layout addKey found and the key it appended
OldKeys == before.project.layout.keys
NewKey == project.layout.keys[Len(project.layout.keys)]

\* the scanned grid for a key of the given size: multiples of (size + gap)
\* below the scan bound
GridXs(width) == {i * (width + DEFAULT_KEY_GAP) : i \in 0..((maxX - 1) \div (width + DEFAULT_KEY_GAP))}
GridYs(height) == {j * (height + DEFAULT_KEY_GAP) : j \in 0..((maxY - 1) \div (height + DEFAULT_KEY_GAP))}

Candidate(x, y) == [x |-> x, y |-> y, w |-> NewKey.width, h |-> NewKey.height]

\* the candidate at (x, y), expanded by the gap, meets no existing key
FreeOfKeys(x, y) ==
  \A i \in 1..Len(OldKeys) :
    ~Overlap(Expanded(Candidate(x, y), DEFAULT_KEY_GAP), RectOf(OldKeys[i]))

\* the candidate at (x, y), expanded by the gap, meets no existing key
\* expanded by the gap
FreeOfExpandedKeys(x, y) ==
  \A i \in 1..Len(OldKeys) :
    ~Overlap(Expanded(Candidate(x, y), DEFAULT_KEY_GAP),
             Expanded(RectOf(OldKeys[i]), DEFAULT_KEY_GAP))

SomeCellFree ==
  \E y \in GridYs(NewKey.height) : \E x \in GridXs(NewKey.width) : FreeOfKeys(x, y)

NewKeyClearOfExpandedKeys ==
  \A i \in 1..Len(OldKeys) :
    ~Overlap(RectOf(NewKey), Expanded(RectOf(OldKeys[i]), DEFAULT_KEY_GAP))

\* least element of a nonempty set of integers
Least(S) == CHOOSE m \in S : \A n \in S : m <= n

\* C7 (as stated): for an existing layout whose keys do not overlap, the
\* new key's rectangle overlaps no existing key's gap-expanded bounding box.
C7_NeverOverlaps ==
  (lastOp = "addKey" /\ NonOverlapping(OldKeys)) => NewKeyClearOfExpandedKeys

\* C7 (amended): the same, whenever some scanned grid cell is free.
C7_NoOverlapWhenCellFree ==
  (lastOp = "addKey" /\ NonOverlapping(OldKeys) /\ SomeCellFree)
    => NewKeyClearOfExpandedKeys

\* addKey found keys in its way, none overlapping another, and a free cell
C7_Witness ==
  /\ lastOp = "addKey" /\ Len(OldKeys) >= 2 /\ NonOverlapping(OldKeys)
  /\ NewKey.x > 0 /\ NewKeyClearOfExpandedKeys

\* C8 (as stated): the new key lands on the lexicographically smallest
\* (y, x) grid cell whose gap-expanded candidate meets no gap-expanded key.
C8_SmallestDoublyExpandedCell ==
  LET ys == {y \in GridYs(NewKey.height) :
               \E x \in GridXs(NewKey.width) : FreeOfExpandedKeys(x, y)}
  IN (lastOp = "addKey" /\ ys # {}) =>
       /\ NewKey.y = Least(ys)
       /\ NewKey.x = Least({x \in GridXs(NewKey.width) : FreeOfExpandedKeys(x, Least(ys))})

\* C8 (amended): ... whose gap-expanded candidate meets no existing key's
\* own rectangle, whenever there is such a cell.
C8_SmallestFreeCell ==
  LET ys == {y \in GridYs(NewKey.height) :
               \E x \in GridXs(NewKey.width) : FreeOfKeys(x, y)}
  IN (lastOp = "addKey" /\ ys # {}) =>
       /\ NewKey.y = Least(ys)
       /\ NewKey.x = Least({x \in GridXs(NewKey.width) : FreeOfKeys(x, Least(ys))})

\* the first row was taken and the key went to a later one
C8_Witness == lastOp = "addKey" /\ OldKeys # <<>> /\ NewKey.y > 0

\* C9: when every scanned cell collides, addKey still appends exactly one
\* key, at (0, 0).
C9_ExhaustionFallsBackToOrigin ==
  (lastOp = "addKey" /\ ~SomeCellFree) =>
    /\ Len(project.layout.keys) = Len(OldKeys) + 1
    /\ SubSeq(project.layout.keys, 1, Len(OldKeys)) = OldKeys
    /\ NewKey.x = 0
    /\ NewKey.y = 0

C9_Witness == lastOp = "addKey" /\ OldKeys # <<>> /\ ~SomeCellFree

(***************************************************************************)
(* Cut-sheet reflow: buildCutProject (export) and derivedKeys (canvas)     *)
(***************************************************************************)
\* keys of a project drawn in SpecCut
MaxCutKeys == 3

\* part_000:71  buildCutProject(project, gap = 0.3)
cutGapExport == 6
\* Sidebar.tsx:290  const gap = 0.8
cutGapCanvas == 16

\* Sidebar.tsx:712-725  (units.ts) paperSizeMm
paperSizeMm(size, orientation) ==
  LET base == CASE size = "Letter"  -> [width |-> 4318, height |-> 5588]
                [] size = "A3"      -> [width |-> 5940, height |-> 8400]
                [] size = "Tabloid" -> [width |-> 5588, height |-> 8636]
                [] OTHER            -> [width |-> 4200, height |-> 5940]
  IN IF orientation = "portrait" THEN base
     ELSE [width |-> base.height, height |-> base.width]

\* the comparator (a, b) => a.y - b.y || a.x - b.x is negative
sortsBefore(a, b) == a.y < b.y \/ (a.y = b.y /\ a.x < b.x)

RECURSIVE insertSortedDropsTies(_, _)
insertSortedDropsTies(sorted, k) ==
  IF sorted = <<>> THEN <<k>>
  ELSE IF sortsBefore(k, Head(sorted)) THEN <<k>> \o sorted
       ELSE IF sortsBefore(Head(sorted), k)
            THEN <<Head(sorted)>> \o insertSortedDropsTies(Tail(sorted), k)
            ELSE sorted

RECURSIVE insertSorted(_, _)
\* k goes after every element that does not sort after it (a stable sort)
insertSorted(sorted, k) ==
  IF sorted = <<>> THEN <<k>>
  ELSE IF sortsBefore(k, Head(sorted)) THEN <<k>> \o sorted
       ELSE <<Head(sorted)>> \o insertSorted(Tail(sorted), k)

RECURSIVE sortByYX(_)
\* part_000:76, Sidebar.tsx:291  [...keys].sort((a, b) => a.y - b.y || a.x - b.x)
sortByYX(keys) ==
  IF keys = <<>> THEN <<>>
  ELSE insertSorted(sortByYX(SubSeq(keys, 1, Len(keys) - 1)), keys[Len(keys)])

\* Math.max(...values) of a nonempty list
maxOf(values) ==
  CHOOSE m \in {values[i] : i \in 1..Len(values)} :
    \A i \in 1..Len(values) : values[i] <= m

\* Math.max(a, b)
max2(a, b) == IF a >= b THEN a ELSE b

cutFirstWidth(sorted) == sorted[1].width

\* part_000:78, Sidebar.tsx:292  Math.max(...sorted.map((k) => k.width))
cutMaxWidth(sorted) == maxOf([i \in 1..Len(sorted) |-> sorted[i].width])

\* part_000:79, Sidebar.tsx:293  Math.max(...sorted.map((k) => k.height))
cutMaxHeight(sorted) == maxOf([i \in 1..Len(sorted) |-> sorted[i].height])

\* part_000:80, Sidebar.tsx:295
\* Math.max(1, Math.floor((usableWidth + gap) / (maxW + gap)))
cutPerRow(usableWidth, maxW, gap) == max2(1, (usableWidth + gap) \div (maxW + gap))

\* part_000:81-90, Sidebar.tsx:297-303  the row-major placement of the sorted keys
cutArrange(sorted, margin, usableWidth, gap) ==
  LET maxW   == cutMaxWidth(sorted)
      maxH   == cutMaxHeight(sorted)
      perRow == cutPerRow(usableWidth, maxW, gap)
  IN [i \in 1..Len(sorted) |->
        assign(sorted[i],
               [x |-> margin + ((i - 1) % perRow) * (maxW + gap),
                y |-> margin + ((i - 1) \div perRow) * (maxH + gap),
                rotation |-> 0])]

\* part_000:71-94  buildCutProject(project): the contents of the project it returns
buildCutProject(p) ==
  LET width       == paperSizeMm(p.paper.size, p.paper.orientation).width
      margin      == p.paper.marginMm
      usableWidth == width - margin * 2
      sorted      == sortByYX(p.layout.keys)
  IN IF sorted = <<>> THEN Content(p)
     ELSE [paper |-> p.paper,
           layout |-> [name |-> <<IF p.layout.name = "" THEN "Layout" ELSE p.layout.name,
                                   " (cut sheet)">>,
                       keys |-> cutArrange(sorted, margin, usableWidth, cutGapExport)],
           updatedAt |-> p.updatedAt]

\* Sidebar.tsx:288-305  CanvasStage derivedKeys (width: Sidebar.tsx:261)
derivedKeys(viewMode, p) ==
  LET width       == paperSizeMm(p.paper.size, p.paper.orientation).width
      sorted      == sortByYX(p.layout.keys)
      usableWidth == width - p.paper.marginMm * 2
  IN IF viewMode = "layout" THEN p.layout.keys
     ELSE IF sorted = <<>> THEN <<>>
     ELSE cutArrange(sorted, p.paper.marginMm, usableWidth, cutGapCanvas)

ViewModes == {"layout", "cut"}

buildCutProjectSortsArgument(p) == [p EXCEPT !.layout.keys = sortByYX(@)]

\* part_000:72-90  what buildCutProject leaves of the project it is given: it
\* sorts [...project.layout.keys], a copy of the array, and spreads every key
\* into a new object before it assigns x, y and rotation
buildCutProjectArgument(p) == p

\* exporters.ts:61-135, 244-285  what an exporter leaves of the project it is
\* given: it only reads the keys, and sorts [...key.elements], a copy
exporterArgument(p) == p

\* part_000:173-183  the store's project after a handler handed it to
\* buildCutProject (cut view) and to an exporter
projectAfterExport(viewMode, p) ==
  IF viewMode = "cut" THEN buildCutProjectArgument(p) ELSE exporterArgument(p)

\* part_000:173-183  handleExportPdf / handleExportSvg: what is handed to the exporter
handleExport(viewMode) ==
  /\ cutOut' = [by |-> "export", viewMode |-> viewMode, paper |-> project.paper,
                keys |-> project.layout.keys,
                out |-> IF viewMode = "cut" THEN buildCutProject(project).layout.keys
                        ELSE project.layout.keys]
  /\ project' = projectAfterExport(viewMode, project)
  /\ UNCHANGED <<past, future, nextOid, clock, lastOp, before, run, viewVars, snapVars>>

\* Sidebar.tsx:288-305  the canvas renders derivedKeys
canvasRender(viewMode) ==
  /\ cutOut' = [by |-> "canvas", viewMode |-> viewMode, paper |-> project.paper,
                keys |-> project.layout.keys,
                out |-> derivedKeys(viewMode, project)]
  /\ UNCHANGED <<project, past, future, nextOid, clock, lastOp, before, run, viewVars, snapVars>>

\* the projects SpecCut starts from: any paper settings, up to MaxCutKeys keys
CutPaperSizes == {"A4", "Letter", "A3", "Tabloid"}
CutOrientations == {"portrait", "landscape"}
\* 6 mm, 90 mm, and 120 mm (more than half an A4 page is wide)
CutMargins == {120, 1800, 2400}
\* a text legend and a shape, as elements of a key
CutLegend ==
  [id |-> 1, type |-> "text", x |-> 0, y |-> 0, width |-> 0, height |-> 0,
   zIndex |-> 1, text |-> "Esc", fontSize |-> 10]
CutSwatch ==
  [id |-> 2, type |-> "shape", x |-> 20, y |-> 20, width |-> 100, height |-> 100,
   zIndex |-> 0, background |-> "#1e293b"]

\* position, size and rotation of a key: 1u, 2u and an ISO enter; two of
\* them at the same place, one rotated, two with elements
CutKeyShapes ==
  { [x |-> 0,   y |-> 0,   width |-> 270, height |-> 270, rotation |-> 0,  keyType |-> "rect",
     elements |-> <<CutLegend>>],
    [x |-> 0,   y |-> 0,   width |-> 540, height |-> 270, rotation |-> 15, keyType |-> "rect"],
    [x |-> 310, y |-> 0,   width |-> 270, height |-> 270, rotation |-> 0,  keyType |-> "rect"],
    [x |-> 310, y |-> 0,   width |-> 405, height |-> 540, rotation |-> 0,  keyType |-> "iso-enter",
     elements |-> <<CutSwatch, CutLegend>>],
    [x |-> 0,   y |-> 310, width |-> 540, height |-> 270, rotation |-> 90, keyType |-> "rect"],
    [x |-> 0,   y |-> 310, width |-> 270, height |-> 270, rotation |-> 0,  keyType |-> "rect"] }

CutKeyLists ==
  UNION { [1..n -> CutKeyShapes] : n \in 0..MaxCutKeys }

cutProject(size, orientation, margin, shapes) ==
  [root |-> 0, paperId |-> 1, layoutId |-> 2,
   paper |-> [size |-> size, orientation |-> orientation, marginMm |-> margin, dpi |-> 300],
   layout |-> [name |-> "Macro Pad",
               keys |-> [i \in 1..Len(shapes) |-> createKey(shapes[i], i)]],
   updatedAt |-> 0]

InitCut ==
  /\ \E size \in CutPaperSizes, orientation \in CutOrientations,
        margin \in CutMargins, shapes \in CutKeyLists :
       project = cutProject(size, orientation, margin, shapes)
  /\ past = <<>>
  /\ future = <<>>
  /\ nextOid = 3
  /\ clock = 0
  /\ lastOp = "init"
  /\ before = [project |-> project, past |-> <<>>, future |-> <<>>]
  /\ run = IdleRun
  /\ cutOut = NoCut
  /\ InitView

NextCut ==
  \/ \E viewMode \in ViewModes : handleExport(viewMode)
  \/ \E viewMode \in ViewModes : canvasRender(viewMode)

SpecCut == InitCut /\ [][NextCut]_vars

(***************************************************************************)
(* Claims about the cut-sheet reflow (checked under SpecCut)               *)
(***************************************************************************)
\* C10: for a nonempty key list and any paper settings, buildCutProject and
\* derivedKeys output as many keys as they were given, every output key has
\* rotation 0, and no two output bounding boxes overlap.
C10_CutSheetSound ==
  (cutOut.by # "none" /\ cutOut.viewMode = "cut" /\ cutOut.keys # <<>>) =>
    /\ Len(cutOut.out) = Len(cutOut.keys)
    /\ \A i \in 1..Len(cutOut.out) : cutOut.out[i].rotation = 0
    /\ NonOverlapping(cutOut.out)

\* overlapping, partly rotated keys of different widths were reflowed on the
\* canvas into more than one row and more than one column
C10_Witness ==
  /\ cutOut.by = "canvas" /\ cutOut.viewMode = "cut"
  /\ Len(cutOut.keys) = MaxCutKeys
  /\ ~NonOverlapping(cutOut.keys)
  /\ \E i \in 1..Len(cutOut.keys) : cutOut.keys[i].rotation # 0
  /\ \E i, j \in 1..Len(cutOut.keys) : cutOut.keys[i].width # cutOut.keys[j].width
  /\ \E i \in 1..Len(cutOut.out) : cutOut.out[i].x > cutOut.paper.marginMm
  /\ \E i \in 1..Len(cutOut.out) : cutOut.out[i].y > cutOut.paper.marginMm

\* the fields of a key that the reflow may change
CutMovedFields == {"x", "y", "rotation"}

\* the output keys that carry the id of an input key
CutImages(id) == {j \in 1..Len(cutOut.out) : cutOut.out[j].id = id}

\* C11: the reflow is a total one-to-one mapping on key identity: every input
\* id appears exactly once in the output, no other id appears, and the output
\* key differs from the input key with its id in x, y and rotation at most.
C11_CutSheetKeepsKeys ==
  (cutOut.by # "none" /\ cutOut.viewMode = "cut") =>
    /\ \A i \in 1..Len(cutOut.keys) : Cardinality(CutImages(cutOut.keys[i].id)) = 1
    /\ \A j \in 1..Len(cutOut.out) :
         \E i \in 1..Len(cutOut.keys) :
           /\ cutOut.out[j].id = cutOut.keys[i].id
           /\ DOMAIN cutOut.out[j] = DOMAIN cutOut.keys[i]
           /\ \A f \in DOMAIN cutOut.keys[i] \ CutMovedFields :
                cutOut.out[j][f] = cutOut.keys[i][f]

\* an export in cut view reordered keys that carry elements and moved one
C11_Witness ==
  /\ cutOut.by = "export" /\ cutOut.viewMode = "cut"
  /\ Len(cutOut.keys) = MaxCutKeys
  /\ \E i \in 1..Len(cutOut.keys) : cutOut.keys[i].elements # <<>>
  /\ \E i \in 1..Len(cutOut.keys) : cutOut.out[i].id # cutOut.keys[i].id
  /\ \E i, j \in 1..Len(cutOut.keys) :
       /\ i # j
       /\ cutOut.keys[i].x = cutOut.keys[j].x /\ cutOut.keys[i].y = cutOut.keys[j].y

\* where a list of keys puts the key with this id
PositionOf(keys, id) ==
  {[x |-> keys[i].x, y |-> keys[i].y] : i \in {j \in 1..Len(keys) : keys[j].id = id}}

\* C12: the arrangement exported in cut view (buildCutProject) gives every key
\* the (x, y) that the cut view of the canvas (derivedKeys) shows for it.
C12_ExportReproducesView ==
  (cutOut.by = "export" /\ cutOut.viewMode = "cut") =>
    \A i \in 1..Len(cutOut.keys) :
      PositionOf(cutOut.out, cutOut.keys[i].id)
        = PositionOf(derivedKeys("cut", project), cutOut.keys[i].id)

(***************************************************************************)
(* Numbers of the renderers.  Lengths of the project are integers in 1/20  *)
(* mm; what the renderers compute from them (points, pixels, halves,       *)
(* ratios) is kept exact as a fraction n/d in lowest terms with d > 0.     *)
(* Division by zero gives what IEEE arithmetic gives: d = 0 with n = 1 is  *)
(* Infinity, n = -1 is -Infinity, n = 0 is NaN.  Rounding is not modelled. *)
(***************************************************************************)
RECURSIVE gcd(_, _)
gcd(a, b) == IF b = 0 THEN a ELSE gcd(b, a % b)

abs(i) == IF i < 0 THEN -i ELSE i

sign(i) == IF i > 0 THEN 1 ELSE IF i < 0 THEN -1 ELSE 0

\* the number n/d
num(n, d) ==
  IF d = 0 THEN [n |-> sign(n), d |-> 0]
  ELSE LET g == gcd(abs(n), abs(d))
       IN [n |-> sign(d) * (n \div g), d |-> abs(d) \div g]

of(i) == [n |-> i, d |-> 1]

NaN == [n |-> 0, d |-> 0]

\* a + b
fAdd(a, b) ==
  IF a.d = 0 /\ b.d = 0 THEN (IF a.n = b.n THEN a ELSE NaN)
  ELSE num(a.n * b.d + b.n * a.d, a.d * b.d)

\* a - b
fSub(a, b) == fAdd(a, [n |-> -b.n, d |-> b.d])

\* a * b
fMul(a, b) == num(a.n * b.n, a.d * b.d)

\* 1 / b
fInv(b) == IF b.n < 0 THEN [n |-> -b.d, d |-> -b.n] ELSE [n |-> b.d, d |-> b.n]

\* a / b
fDiv(a, b) == fMul(a, fInv(b))

\* a < b (false when either is NaN)
fLt(a, b) ==
  /\ a # NaN
  /\ b # NaN
  /\ IF a.d = 0 /\ b.d = 0 THEN a.n < b.n ELSE a.n * b.d < b.n * a.d

\* a <= b
fLe(a, b) == fLt(a, b) \/ (a # NaN /\ a = b)

\* a length of the project, in millimetres
mm(u) == num(u, 20)

\* value || dflt on a number: 0 (and a missing field) gives the default
orElse(r, f, dflt) == IF f \in DOMAIN r /\ r[f] # 0 THEN r[f] ELSE dflt

(***************************************************************************)
(* units.ts                                                                *)
(***************************************************************************)
\* Sidebar.tsx:701
MM_PER_INCH == num(254, 10)
\* Sidebar.tsx:702
POINTS_PER_INCH == of(72)

\* Sidebar.tsx:704-706
mmToPixels(v, dpi) == fMul(fDiv(v, MM_PER_INCH), dpi)

\* Sidebar.tsx:708-710
mmToPoints(v) == fMul(fDiv(v, MM_PER_INCH), POINTS_PER_INCH)

(***************************************************************************)
(* Key outlines                                                            *)
(***************************************************************************)
pt(x, y) == [x |-> x, y |-> y]

\* exporters.ts:95, 268  the 1.5u reference width of a big enter, 20.25 mm
bigEnterTopW == 405

\* Math.min(a, b) on lengths
min2(a, b) == IF a <= b THEN a ELSE b

\* exporters.ts:252-284  the outline of a key in the SVG, page millimetres
svgOutline(key, margin) ==
  LET x == mm(margin + key.x)
      y == mm(margin + key.y)
      w == mm(key.width)
      h == mm(key.height)
      topH == fDiv(h, of(2))
      squareW == fDiv(h, of(2))
      topW == mm(min2(key.width, bigEnterTopW))
  IN IF key.keyType = "iso-enter"
     THEN <<pt(x, y), pt(fAdd(x, w), y), pt(fAdd(x, w), fAdd(y, h)),
            pt(fSub(fAdd(x, w), squareW), fAdd(y, h)),
            pt(fSub(fAdd(x, w), squareW), fAdd(y, topH)),
            pt(x, fAdd(y, topH))>>
     ELSE IF key.keyType = "big-enter"
     THEN <<pt(x, fAdd(y, h)), pt(fAdd(x, w), fAdd(y, h)), pt(fAdd(x, w), y),
            pt(fSub(fAdd(x, w), topW), y),
            pt(fSub(fAdd(x, w), topW), fAdd(y, topH)),
            pt(x, fAdd(y, topH))>>
     ELSE <<pt(x, y), pt(fAdd(x, w), y), pt(fAdd(x, w), fAdd(y, h)), pt(x, fAdd(y, h))>>

\* Math.cos and Math.sin of a whole number of quarter turns, in degrees
cosDeg(deg) == CASE deg % 360 = 0 -> 1 [] deg % 360 = 180 -> -1 [] OTHER -> 0
sinDeg(deg) == CASE deg % 360 = 90 -> 1 [] deg % 360 = 270 -> -1 [] OTHER -> 0

\* exporters.ts:64-65  the key's origin on the PDF page, points, y up
pdfOrigin(key, paper) ==
  LET height == paperSizeMm(paper.size, paper.orientation).height
  IN pt(mmToPoints(mm(paper.marginMm + key.x)),
        mmToPoints(mm(height - paper.marginMm - key.y - key.height)))

\* exporters.ts:66-79  rotPt
rotPt(key, paper, x, y) ==
  LET rotationDeg == -key.rotation
      o  == pdfOrigin(key, paper)
      cx == fAdd(o.x, fDiv(mmToPoints(mm(key.width)), of(2)))
      cy == fAdd(o.y, fDiv(mmToPoints(mm(key.height)), of(2)))
      dx == fSub(x, cx)
      dy == fSub(y, cy)
      c  == of(cosDeg(rotationDeg))
      s  == of(sinDeg(rotationDeg))
  IN IF rotationDeg = 0 THEN pt(x, y)
     ELSE pt(fSub(fAdd(cx, fMul(dx, c)), fMul(dy, s)),
             fAdd(fAdd(cy, fMul(dx, s)), fMul(dy, c)))

\* exporters.ts:81-111  rawOutline
rawOutline(key, paper) ==
  LET o == pdfOrigin(key, paper)
      originX == o.x
      originY == o.y
      keyWidthPt == mmToPoints(mm(key.width))
      keyHeightPt == mmToPoints(mm(key.height))
      topH == fDiv(mm(key.height), of(2))
      squareW == fDiv(mm(key.height), of(2))
      topW == mm(min2(key.width, bigEnterTopW))
      right == fAdd(originX, keyWidthPt)
      top == fAdd(originY, keyHeightPt)
  IN IF key.keyType = "iso-enter"
     THEN <<pt(originX, originY), pt(right, originY), pt(right, top),
            pt(fSub(right, mmToPoints(squareW)), top),
            pt(fSub(right, mmToPoints(squareW)), fAdd(originY, mmToPoints(topH))),
            pt(originX, fAdd(originY, mmToPoints(topH)))>>
     ELSE IF key.keyType = "big-enter"
     THEN <<pt(originX, top), pt(right, top), pt(right, originY),
            pt(fSub(right, mmToPoints(topW)), originY),
            pt(fSub(right, mmToPoints(topW)), fAdd(originY, mmToPoints(topH))),
            pt(originX, fAdd(originY, mmToPoints(topH)))>>
     ELSE <<pt(originX, originY), pt(right, originY), pt(right, top), pt(originX, top)>>

\* exporters.ts:112  outline
pdfOutline(key, paper) ==
  LET raw == rawOutline(key, paper)
  IN [i \in 1..Len(raw) |-> rotPt(key, paper, raw[i].x, raw[i].y)]

\* Sidebar.tsx:452-453, 550-615  the outline of a key on the canvas, pixels,
\* local to the key's group
canvasOutline(key, dpi, effectiveScale) ==
  LET wPx == fMul(mmToPixels(mm(key.width), dpi), effectiveScale)
      hPx == fMul(mmToPixels(mm(key.height), dpi), effectiveScale)
      zero == of(0)
      topH == fDiv(hPx, of(2))
      isoSquareW == fDiv(hPx, of(2))
      capW == fMul(mmToPixels(mm(bigEnterTopW), dpi), effectiveScale)
      bigSquareW == IF fLe(wPx, capW) THEN wPx ELSE capW
  IN IF key.keyType = "iso-enter"
     THEN <<pt(zero, zero), pt(wPx, zero), pt(wPx, hPx), pt(fSub(wPx, isoSquareW), hPx),
            pt(fSub(wPx, isoSquareW), topH), pt(zero, topH)>>
     ELSE IF key.keyType = "big-enter"
     THEN <<pt(zero, hPx), pt(wPx, hPx), pt(wPx, zero), pt(fSub(wPx, bigSquareW), zero),
            pt(fSub(wPx, bigSquareW), topH), pt(zero, topH)>>
     ELSE <<pt(zero, zero), pt(wPx, zero), pt(wPx, hPx), pt(zero, hPx)>>

(***************************************************************************)
(* Elements                                                                *)
(***************************************************************************)
RECURSIVE insertByZ(_, _)
\* el goes after every element whose zIndex is not larger (a stable sort)
insertByZ(sorted, el) ==
  IF sorted = <<>> THEN <<el>>
  ELSE IF el.zIndex < Head(sorted).zIndex THEN <<el>> \o sorted
       ELSE <<Head(sorted)>> \o insertByZ(Tail(sorted), el)

RECURSIVE sortByZ(_)
\* exporters.ts:135, 285, Sidebar.tsx:617-618
\* [...key.elements].sort((a, b) => a.zIndex - b.zIndex)
sortByZ(elements) ==
  IF elements = <<>> THEN <<>>
  ELSE insertByZ(sortByZ(SubSeq(elements, 1, Len(elements) - 1)), elements[Len(elements)])

rect(x, y, width, height) == [x |-> x, y |-> y, width |-> width, height |-> height]

\* exporters.ts:137, 287  el.padding ?? key.padding ?? 0
exportPad(key, el) == orDefault(el, "padding", orDefault(key, "padding", 0))

\* exporters.ts:137-141  elX, elY, elWidth, elHeight: points, y up
pdfElementRect(key, el, paper) ==
  LET o   == pdfOrigin(key, paper)
      pad == exportPad(key, el)
  IN rect(fAdd(o.x, mmToPoints(mm(orElse(el, "x", 0) + pad))),
          fAdd(o.y, mmToPoints(mm(key.height - orElse(el, "y", 0)
                                    - orElse(el, "height", key.height) + pad))),
          mmToPoints(mm(orElse(el, "width", key.width) - pad * 2)),
          mmToPoints(mm(orElse(el, "height", key.height) - pad * 2)))

\* exporters.ts:287-304  x, y, width, height of <rect> and <image>: page
\* millimetres, y down
svgElementRect(key, el, margin) ==
  LET pad == exportPad(key, el)
  IN rect(mm(margin + key.x + orElse(el, "x", 0) + pad),
          mm(margin + key.y + orElse(el, "y", 0) + pad),
          mm(orElse(el, "width", key.width) - pad * 2),
          mm(orElse(el, "height", key.height) - pad * 2))

\* Sidebar.tsx:147-150  x, y, width, height of ElementRenderer: pixels, local
\* to the key's group, y down
canvasElementRect(key, el, dpi) ==
  rect(mmToPixels(mm(orElse(el, "x", 0) + key.padding), dpi),
       mmToPixels(mm(orElse(el, "y", 0) + key.padding), dpi),
       fSub(mmToPixels(mm(orElse(el, "width", key.width)), dpi),
            mmToPixels(mm(key.padding * 2), dpi)),
       fSub(mmToPixels(mm(orElse(el, "height", key.height)), dpi),
            mmToPixels(mm(key.padding * 2), dpi)))

(***************************************************************************)
(* Images.  A data URL is described by what it declares and what it holds: *)
(* mime is the declared type; payload is "missing" (no dataUrl), "noComma" *)
(* (nothing after a comma), "notBase64", "garbage" (base64 of bytes that   *)
(* are no image), or the format the bytes really are; width and height are *)
(* the natural size of the decoded image.                                  *)
(***************************************************************************)
ImageFormats == {"png", "jpeg", "gif", "svg"}

fitSizeStretch(fit, availW, availH, imageW, imageH) ==
  [width |-> availW, height |-> availH]

\* exporters.ts:173-195, Sidebar.tsx:186-210  drawW, drawH
fitSize(fit, availW, availH, imageW, imageH) ==
  LET naturalRatio == fDiv(imageW, imageH)
      areaRatio    == fDiv(availW, availH)
      byHeight == [width |-> fMul(availH, naturalRatio), height |-> availH]
      byWidth  == [width |-> availW, height |-> fDiv(availW, naturalRatio)]
  IN IF fit = "contain"
     THEN (IF fLt(naturalRatio, areaRatio) THEN byHeight ELSE byWidth)
     ELSE IF fit = "cover"
     THEN (IF fLt(areaRatio, naturalRatio) THEN byHeight ELSE byWidth)
     ELSE [width |-> availW, height |-> availH]

\* exporters.ts:196-201, Sidebar.tsx:212-217  offsetX / offsetY: far is the
\* keyword that anchors to start + (avail - draw)
alignOffset(align, far, start, avail, draw) ==
  IF align = "center" THEN fAdd(start, fDiv(fSub(avail, draw), of(2)))
  ELSE IF align = far THEN fAdd(start, fSub(avail, draw))
  ELSE start

\* exporters.ts:173-201  the rectangle the PDF draws the image in: points, y up
pdfImageDraw(el, avail, image) ==
  LET draw == fitSize(orDefault(el, "fit", "none"), avail.width, avail.height,
                      of(image.width), of(image.height))
  IN rect(alignOffset(orDefault(el, "alignX", "center"), "right", avail.x, avail.width, draw.width),
          alignOffset(orDefault(el, "alignY", "center"), "bottom", avail.y, avail.height, draw.height),
          draw.width, draw.height)

\* Sidebar.tsx:185-217  the rectangle the canvas draws the image in: pixels,
\* local to the key's group, y down
canvasImageDraw(el, avail, image) ==
  LET draw == fitSize(orDefault(el, "fit", "none"), avail.width, avail.height,
                      of(image.width), of(image.height))
  IN rect(alignOffset(orDefault(el, "alignX", "center"), "right", avail.x, avail.width, draw.width),
          alignOffset(orDefault(el, "alignY", "center"), "bottom", avail.y, avail.height, draw.height),
          draw.width, draw.height)

\* exporters.ts:5-8
getDataUrlMime(dataUrl) ==
  IF dataUrl.payload = "missing" THEN "undefined" ELSE dataUrl.mime

\* exporters.ts:10-14: undefined without data after the comma, atob throws on
\* what is not base64, otherwise the bytes
dataUrlToBytes(dataUrl) ==
  IF dataUrl.payload \in {"missing", "noComma"} THEN "undefined"
  ELSE IF dataUrl.payload = "notBase64" THEN "throws"
  ELSE dataUrl.payload

\* no data URL: an empty or undefined string
NoDataUrl == [mime |-> "undefined", payload |-> "missing", width |-> 0, height |-> 0]

\* exporters.ts:16-34: the browser decodes the image and redraws it as a PNG;
\* undefined when it cannot decode it.  A canvas without area serialises to
\* "data:,", which has nothing after the comma.
convertDataUrlToPng(dataUrl) ==
  IF dataUrl.payload \notin ImageFormats THEN NoDataUrl
  ELSE IF dataUrl.width = 0 \/ dataUrl.height = 0
       THEN [mime |-> "undefined", payload |-> "noComma", width |-> 0, height |-> 0]
       ELSE [mime |-> "image/png", payload |-> "png",
             width |-> dataUrl.width, height |-> dataUrl.height]

\* pdf-lib embedPng / embedJpg: the embedded image, or an exception when the
\* bytes are not of that format
embed(format, bytes, dataUrl) ==
  IF bytes = format
  THEN [outcome |-> "image", width |-> dataUrl.width, height |-> dataUrl.height]
  ELSE [outcome |-> "throws", width |-> 0, height |-> 0]

NoImage == [outcome |-> "undefined", width |-> 0, height |-> 0]
Thrown == [outcome |-> "throws", width |-> 0, height |-> 0]

\* exporters.ts:36-50
embedImage(el) ==
  LET dataUrl   == el.dataUrl
      mime      == getDataUrlMime(dataUrl)
      bytes     == dataUrlToBytes(dataUrl)
      converted == convertDataUrlToPng(dataUrl)
  IN IF el.type # "image" THEN NoImage
     ELSE IF dataUrl.payload = "missing" THEN NoImage
     ELSE IF bytes = "throws" THEN Thrown
     ELSE IF bytes # "undefined" /\ mime = "image/png" THEN embed("png", bytes, dataUrl)
     ELSE IF bytes # "undefined" /\ mime \in {"image/jpeg", "image/jpg"}
          THEN embed("jpeg", bytes, dataUrl)
     ELSE IF converted.payload = "missing" THEN NoImage
     ELSE IF dataUrlToBytes(converted) = "undefined" THEN NoImage
     ELSE embed("png", dataUrlToBytes(converted), converted)

\* Sidebar.tsx:146  useImage(element.dataUrl): the decoded image, if the
\* browser can decode it
useImage(el) ==
  IF el.type = "image" /\ el.dataUrl.payload \in ImageFormats
  THEN [outcome |-> "image", width |-> el.dataUrl.width, height |-> el.dataUrl.height]
  ELSE NoImage

(***************************************************************************)
(* What the three renderers emit                                           *)
(***************************************************************************)
\* exporters.ts:61-133  the outline of one key in the PDF
pdfOutlineOp(key, paper) ==
  [kind |-> "outline", key |-> key.id, el |-> 0, pts |-> pdfOutline(key, paper),
   closed |-> TRUE]

\* exporters.ts:151-169  a text or a shape element in the PDF
pdfElementOp(key, el, paper) ==
  LET r        == pdfElementRect(key, el, paper)
      fontSize == of(orElse(el, "fontSize", 10))
      textX    == fAdd(r.x, of(2))
      textY    == fSub(fAdd(r.y, fDiv(r.height, of(2))), fDiv(fontSize, of(2)))
  IN IF el.type = "text"
     THEN [kind |-> "text", key |-> key.id, el |-> el.id, rect |-> r,
           at |-> rotPt(key, paper, textX, textY), size |-> fontSize]
     ELSE [kind |-> "shape", key |-> key.id, el |-> el.id, rect |-> r,
           at |-> rotPt(key, paper, r.x, r.y)]

\* exporters.ts:172-211  an image element in the PDF
pdfImageOp(key, el, paper, image) ==
  LET r    == pdfElementRect(key, el, paper)
      draw == pdfImageDraw(el, r, image)
  IN [kind |-> "image", key |-> key.id, el |-> el.id, rect |-> r, draw |-> draw,
      at |-> rotPt(key, paper, draw.x, draw.y)]

\* exporters.ts:216-232  the 50 mm test bar
pdfRuler(includeRuler) ==
  IF includeRuler THEN << [kind |-> "ruler", key |-> 0, el |-> 0] >> ELSE <<>>

RECURSIVE pdfAdvance(_, _, _, _, _)
\* exporters.ts:61-234  exportProjectToPdf from element e of key k (e = 0:
\* the key's outline) up to the next await: the embedImage of an image
\* element, or doc.save()
pdfAdvance(p, includeRuler, k, e, ops) ==
  LET keys   == p.layout.keys
      key    == keys[k]
      sorted == sortByZ(key.elements)
  IN IF k > Len(keys)
     THEN [status |-> "saved", project |-> p, includeRuler |-> includeRuler,
           k |-> k, e |-> 0, ops |-> ops \o pdfRuler(includeRuler)]
     ELSE IF e = 0
     THEN pdfAdvance(p, includeRuler, k, 1, Append(ops, pdfOutlineOp(key, p.paper)))
     ELSE IF e > Len(sorted)
     THEN pdfAdvance(p, includeRuler, k + 1, 0, ops)
     ELSE IF sorted[e].type = "image"
     THEN [status |-> "running", project |-> p, includeRuler |-> includeRuler,
           k |-> k, e |-> e, ops |-> ops]
     ELSE pdfAdvance(p, includeRuler, k, e + 1,
                     Append(ops, pdfElementOp(key, sorted[e], p.paper)))

\* exporters.ts:170-212  the export resumes with what embedImage gave
pdfAfterEmbed(x) ==
  LET key   == x.project.layout.keys[x.k]
      el    == sortByZ(key.elements)[x.e]
      image == embedImage(el)
  IN IF image.outcome = "throws" THEN [x EXCEPT !.status = "rejected"]
     ELSE IF image.outcome = "undefined"
     THEN pdfAdvance(x.project, x.includeRuler, x.k, x.e + 1, x.ops)
     ELSE pdfAdvance(x.project, x.includeRuler, x.k, x.e + 1,
                     Append(x.ops, pdfImageOp(key, el, x.project.paper, image)))

\* exporters.ts:244-306  what the SVG holds for one element
svgElementOps(key, el, margin) ==
  LET pad == exportPad(key, el)
  IN IF el.type = "shape"
     THEN << [kind |-> "shape", key |-> key.id, el |-> el.id,
              rect |-> svgElementRect(key, el, margin)] >>
     ELSE IF el.type = "text"
     THEN << [kind |-> "text", key |-> key.id, el |-> el.id,
              x |-> fAdd(mm(margin + key.x + orElse(el, "x", 0) + pad), of(2)),
              y |-> fAdd(fAdd(mm(margin + key.y + orElse(el, "y", 0) + pad),
                              of(orElse(el, "fontSize", 10))), of(2)),
              size |-> of(orElse(el, "fontSize", 10))] >>
     ELSE IF el.type = "image" /\ el.dataUrl.payload # "missing"
     THEN << [kind |-> "image", key |-> key.id, el |-> el.id,
              rect |-> svgElementRect(key, el, margin),
              preserveAspectRatio |->
                [align |-> "xMidYMid",
                 meetOrSlice |-> IF orDefault(el, "fit", "none") = "contain"
                                 THEN "meet" ELSE "slice"]] >>
     ELSE <<>>

RECURSIVE svgElementsFrom(_, _, _, _)
svgElementsFrom(key, sorted, e, margin) ==
  IF e > Len(sorted) THEN <<>>
  ELSE svgElementOps(key, sorted[e], margin) \o svgElementsFrom(key, sorted, e + 1, margin)

RECURSIVE svgKeysFrom(_, _)
\* exporters.ts:237-311  exportProjectToSvg
svgKeysFrom(p, k) ==
  LET key == p.layout.keys[k]
  IN IF k > Len(p.layout.keys) THEN <<>>
     ELSE << [kind |-> "outline", key |-> key.id, el |-> 0,
              pts |-> svgOutline(key, p.paper.marginMm), closed |-> TRUE,
              rotate |-> key.rotation] >>
          \o svgElementsFrom(key, sortByZ(key.elements), 1, p.paper.marginMm)
          \o svgKeysFrom(p, k + 1)

exportProjectToSvg(p) == svgKeysFrom(p, 1)

\* Sidebar.tsx:145-232  ElementRenderer
canvasElementOps(key, el, dpi) ==
  LET r     == canvasElementRect(key, el, dpi)
      image == useImage(el)
  IN IF el.type = "shape" \/ el.type = "text"
     THEN << [kind |-> el.type, key |-> key.id, el |-> el.id, rect |-> r] >>
     ELSE IF el.type = "image" /\ image.outcome = "image"
     THEN << [kind |-> "image", key |-> key.id, el |-> el.id, rect |-> r,
              draw |-> canvasImageDraw(el, r, image)] >>
     ELSE <<>>

RECURSIVE canvasElementsFrom(_, _, _, _)
canvasElementsFrom(key, sorted, e, dpi) ==
  IF e > Len(sorted) THEN <<>>
  ELSE canvasElementOps(key, sorted[e], dpi) \o canvasElementsFrom(key, sorted, e + 1, dpi)

RECURSIVE canvasKeysFrom(_, _, _, _)
\* Sidebar.tsx:449-630  the keys CanvasStage draws
canvasKeysFrom(keys, paper, effectiveScale, k) ==
  LET key == keys[k]
      dpi == of(paper.dpi)
  IN IF k > Len(keys) THEN <<>>
     ELSE << [kind |-> "outline", key |-> key.id, el |-> 0,
              pts |-> canvasOutline(key, dpi, effectiveScale), closed |-> TRUE,
              xPx |-> fAdd(fMul(mmToPixels(mm(paper.marginMm + key.x), dpi), effectiveScale), of(30)),
              yPx |-> fAdd(fMul(mmToPixels(mm(paper.marginMm + key.y), dpi), effectiveScale), of(30)),
              rotation |-> key.rotation] >>
          \o canvasElementsFrom(key, sortByZ(key.elements), 1, fMul(dpi, effectiveScale))
          \o canvasKeysFrom(keys, paper, effectiveScale, k + 1)

(***************************************************************************)
(* Export and drawing actions                                              *)
(***************************************************************************)
\* The objects of the heap, as far as the store still holds them: what the
\* object with identity id (the paper or the layout of a project) holds now.
\* An object the store dropped keeps what it held (remembered): nothing else
\* refers to it.
readThrough(idField, id, field, remembered) ==
  LET all  == <<project>> \o past \o future
      hits == {i \in 1..Len(all) : all[i][idField] = id}
  IN IF hits = {} THEN remembered
     ELSE all[CHOOSE i \in hits : \A j \in hits : i <= j][field]

\* the elements array of a key of the cut sheet: { ...key } shares it with
\* the key of the source layout (part_000:84-85)
elementsThrough(layout, key) ==
  IF findKey(layout.keys, key.id) = 0 THEN key.elements
  ELSE layout.keys[findKey(layout.keys, key.id)].elements

\* exporters.ts:52-61  the project as exportProjectToPdf reads it when it
\* runs on: in the layout view it holds the store's own project object; in
\* the cut view a structuredClone with new key objects, whose elements
\* arrays are those of the store's layout (part_000:72-91)
projectHeld(x) ==
  LET layoutNow == readThrough("layoutId", x.src.layoutId, "layout", x.src.layout)
      keys      == x.project.layout.keys
  IN IF x.viewMode = "cut"
     THEN [x.project EXCEPT !.layout.keys =
             [i \in DOMAIN keys |->
                assign(keys[i], [elements |-> elementsThrough(layoutNow, keys[i])])]]
     ELSE [x.project EXCEPT
             !.paper = readThrough("paperId", x.src.paperId, "paper", x.project.paper),
             !.layout = layoutNow]

\* part_000:173-177  handleExportPdf: the export starts and waits for
\* PDFDocument.create().  src: the objects of the store it refers to; seen:
\* the clock each time the export ran on (history field)
handleExportPdf(viewMode, includeRuler) ==
  /\ pdf.status \in {"idle", "saved", "rejected"}
  /\ pdf' = [status |-> "running",
             project |-> IF viewMode = "cut" THEN buildCutProject(project) ELSE Content(project),
             includeRuler |-> includeRuler, k |-> 0, e |-> 0, ops |-> <<>>,
             viewMode |-> viewMode,
             src |-> [paperId |-> project.paperId, layoutId |-> project.layoutId,
                      layout |-> project.layout],
             seen |-> <<>>]
  /\ project' = projectAfterExport(viewMode, project)
  /\ UNCHANGED <<past, future, nextOid, clock, lastOp, before, run, cutOut,
                 selectedKeys, svg, canvas, built, snapVars>>

\* exporters.ts:52-235  the export runs on from the await it was suspended at
pdfResume ==
  /\ pdf.status = "running"
  /\ pdf' = assign(IF pdf.k = 0
                   THEN pdfAdvance(projectHeld(pdf), pdf.includeRuler, 1, 0, <<>>)
                   ELSE pdfAfterEmbed([pdf EXCEPT !.project = projectHeld(pdf)]),
                   [project |-> pdf.project, viewMode |-> pdf.viewMode, src |-> pdf.src,
                    seen |-> Append(pdf.seen, clock)])
  /\ UNCHANGED <<project, past, future, nextOid, clock, lastOp, before, run, cutOut,
                 selectedKeys, svg, canvas, built, snapVars>>

\* part_000:179-183  handleExportSvg
handleExportSvg(viewMode) ==
  /\ svg' = [done |-> TRUE,
             project |-> IF viewMode = "cut" THEN buildCutProject(project) ELSE Content(project),
             ops |-> exportProjectToSvg(IF viewMode = "cut" THEN buildCutProject(project)
                                        ELSE Content(project))]
  /\ project' = projectAfterExport(viewMode, project)
  /\ UNCHANGED <<past, future, nextOid, clock, lastOp, before, run, cutOut,
                 selectedKeys, pdf, canvas, built, snapVars>>

\* Sidebar.tsx:234-635  CanvasStage renders the project at a zoom
canvasDraw(viewMode, effectiveScale) ==
  /\ canvas' = [done |-> TRUE, keys |-> derivedKeys(viewMode, project),
                paper |-> project.paper, effectiveScale |-> effectiveScale,
                ops |-> canvasKeysFrom(derivedKeys(viewMode, project), project.paper,
                                       effectiveScale, 1)]
  /\ UNCHANGED <<project, past, future, nextOid, clock, lastOp, before, run, cutOut,
                 selectedKeys, pdf, svg, built, snapVars>>

(***************************************************************************)
(* The projects the renderers are run on                                   *)
(***************************************************************************)
\* natural width and height of an image, in pixels
MaxNatural == 3

\* store.ts:360-380  createTextElement
RenderLegend ==
  [id |-> 11, type |-> "text", text |-> "Esc", fontSize |-> 11, x |-> 0, y |-> 0,
   width |-> DEFAULT_KEY_SIZE, height |-> DEFAULT_KEY_SIZE,
   alignX |-> "center", alignY |-> "middle", padding |-> 40, zIndex |-> 2]

\* store.ts:382-394  createShapeElement, moved and resized
RenderSwatch ==
  [id |-> 12, type |-> "shape", background |-> "#243142", x |-> 20, y |-> 30,
   width |-> 100, height |-> 60, cornerRadius |-> 40, zIndex |-> 0]

\* importers.ts:365-379  handleImageUpload, with fit and alignment
imageElement(fit, alignX, alignY, dataUrl, width, height) ==
  [id |-> 13, type |-> "image", dataUrl |-> dataUrl, fit |-> fit,
   alignX |-> alignX, alignY |-> alignY, x |-> 0, y |-> 0,
   width |-> width, height |-> height, zIndex |-> 1]

RenderElementLists == {<<>>, <<RenderLegend>>, <<RenderLegend, RenderSwatch>>}

\* 1u, a flat rect, an ISO enter, an ISO enter narrower than half its height,
\* a big enter wider and one narrower than 20.25 mm, and a rect turned by 90
RenderKeyShapes ==
  { [keyType |-> "rect",      x |-> 0,   y |-> 0,  width |-> 270, height |-> 270, rotation |-> 0],
    [keyType |-> "rect",      x |-> 310, y |-> 20, width |-> 360, height |-> 200, rotation |-> 0],
    [keyType |-> "iso-enter", x |-> 310, y |-> 20, width |-> 405, height |-> 540, rotation |-> 0],
    [keyType |-> "iso-enter", x |-> 0,   y |-> 0,  width |-> 200, height |-> 540, rotation |-> 0],
    [keyType |-> "big-enter", x |-> 0,   y |-> 0,  width |-> 540, height |-> 540, rotation |-> 0],
    [keyType |-> "big-enter", x |-> 310, y |-> 20, width |-> 300, height |-> 540, rotation |-> 0],
    [keyType |-> "rect",      x |-> 310, y |-> 20, width |-> 360, height |-> 200, rotation |-> 90] }

\* importers.ts:430-431  the padding of a key, as created and as edited
RenderPaddings == {40, 80}

Fits == {"contain", "cover"}
AlignXs == {"left", "center", "right"}
AlignYs == {"top", "center", "bottom"}

\* images the browser and pdf-lib decode
PngUrls ==
  { [mime |-> "image/png", payload |-> "png", width |-> w, height |-> h] :
      w \in 1..MaxNatural, h \in 1..MaxNatural }

\* SVG images without intrinsic size: the browser reports a natural width or
\* height of 0
SvgUrls ==
  { [mime |-> "image/svg+xml", payload |-> "svg", width |-> w, height |-> h] :
      w \in 0..1, h \in {0} }

\* missing, truncated, not base64, corrupt, mislabelled and convertible images
OddUrls ==
  { NoDataUrl,
    [mime |-> "image/png",  payload |-> "noComma",   width |-> 0, height |-> 0],
    [mime |-> "image/png",  payload |-> "notBase64", width |-> 0, height |-> 0],
    [mime |-> "image/png",  payload |-> "garbage",   width |-> 0, height |-> 0],
    [mime |-> "image/jpeg", payload |-> "garbage",   width |-> 0, height |-> 0],
    [mime |-> "image/bmp",  payload |-> "garbage",   width |-> 0, height |-> 0],
    [mime |-> "image/png",  payload |-> "jpeg",      width |-> 2, height |-> 1],
    [mime |-> "image/jpeg", payload |-> "jpeg",      width |-> 2, height |-> 1],
    [mime |-> "image/gif",  payload |-> "gif",       width |-> 2, height |-> 1] }

RenderPaper == [size |-> "A4", orientation |-> "portrait", marginMm |-> 120, dpi |-> 300]

renderProject(keys) ==
  [root |-> 0, paperId |-> 1, layoutId |-> 2, paper |-> RenderPaper,
   layout |-> [name |-> "Macro Pad", keys |-> keys], updatedAt |-> 0]

\* the key that carries the images
ImageKeyShape ==
  [keyType |-> "rect", x |-> 310, y |-> 20, width |-> 360, height |-> 270, rotation |-> 0]

\* a legend that fills its key: an 18 x 18 mm rect key at the origin without
\* padding, with one text element of the key's size (store.ts:360-380)
BaselineText ==
  [id |-> 14, type |-> "text", text |-> "Esc", fontSize |-> 11, x |-> 0, y |-> 0,
   width |-> 360, height |-> 360, alignX |-> "center", alignY |-> "middle",
   padding |-> 0, zIndex |-> 2]

BaselineKey ==
  createKey([keyType |-> "rect", x |-> 0, y |-> 0, width |-> 360, height |-> 360,
             rotation |-> 0, padding |-> 0, elements |-> <<BaselineText>>], 1)

BaselineProject == renderProject(<<BaselineKey>>)

RenderProjects ==
  { renderProject(<< createKey(assign(shape, [padding |-> pad, elements |-> els]), 1) >>) :
      shape \in RenderKeyShapes, pad \in RenderPaddings, els \in RenderElementLists }
  \cup
  { renderProject(<< createKey(assign(ImageKeyShape,
        [elements |-> << imageElement(fit, ax, ay, url, 360, 270) >>]), 1) >>) :
      fit \in Fits, ax \in AlignXs, ay \in AlignYs, url \in PngUrls \cup SvgUrls }
  \cup
  { renderProject(<< createKey(assign(ImageKeyShape,
        [elements |-> << RenderLegend, imageElement("contain", "center", "center", url, 360, 270),
                         RenderSwatch >>]), 1),
                     createKey(assign(ImageKeyShape, [x |-> 0, y |-> 400,
                                                     elements |-> <<RenderLegend>>]), 2) >>) :
      url \in OddUrls }
  \cup {BaselineProject}

\* zoom * fitScale of the canvas
EffectiveScales == {of(1), num(1, 2)}

InitRender ==
  /\ project \in RenderProjects
  /\ past = <<>>
  /\ future = <<>>
  /\ nextOid = 3
  /\ clock = 0
  /\ lastOp = "init"
  /\ before = [project |-> project, past |-> <<>>, future |-> <<>>]
  /\ run = IdleRun
  /\ cutOut = NoCut
  /\ InitView

NextRender ==
  \/ \E viewMode \in ViewModes, includeRuler \in BOOLEAN : handleExportPdf(viewMode, includeRuler)
  \/ pdfResume
  \/ \E viewMode \in ViewModes : handleExportSvg(viewMode)
  \/ \E effectiveScale \in EffectiveScales : canvasDraw("layout", effectiveScale)

SpecRender == InitRender /\ [][NextRender]_vars

(***************************************************************************)
(* Claims about the renderers (checked under SpecRender)                   *)
(***************************************************************************)
Range(s) == {s[i] : i \in 1..Len(s)}

\* the operations of a kind that a renderer emitted
OpsOf(ops, kind) == {op \in Range(ops) : op.kind = kind}

\* the key / the element of a key with an id
KeyById(keys, id) == CHOOSE k \in Range(keys) : k.id = id
ElById(key, id) == CHOOSE el \in Range(key.elements) : el.id = id

\* points and pixels back to millimetres
pointsToMm(v) == fMul(fDiv(v, POINTS_PER_INCH), MM_PER_INCH)
pixelsToMm(v, dpi) == fMul(fDiv(v, dpi), MM_PER_INCH)

PageHeight(paper) == paperSizeMm(paper.size, paper.orientation).height

\* a PDF outline in top-left, y-down millimetres: y_mm = pageHeight - y_pdf
PdfVerticesInMm(op, paper) ==
  {pt(pointsToMm(q.x), fSub(mm(PageHeight(paper)), pointsToMm(q.y))) : q \in Range(op.pts)}

BothExported == pdf.status = "saved" /\ svg.done /\ svg.project = pdf.project

\* C13: for every unrotated key of every key type the outline in the PDF,
\* mapped back to top-left, y-down millimetres, has exactly the vertices of
\* the outline in the SVG.
C13_PdfOutlineMirrorsSvg ==
  BothExported =>
    \A po \in OpsOf(pdf.ops, "outline"), so \in OpsOf(svg.ops, "outline") :
      (po.key = so.key /\ so.rotate = 0) =>
        PdfVerticesInMm(po, pdf.project.paper) = Range(so.pts)

\* the rectangle of section 4.4: effective padding p is the element's own
\* padding if it has one, else the key's
ExpectedRect(key, el) ==
  LET p == IF "padding" \in DOMAIN el THEN el.padding ELSE key.padding
  IN rect(mm(orElse(el, "x", 0) + p), mm(orElse(el, "y", 0) + p),
          mm(orElse(el, "width", key.width) - 2 * p),
          mm(orElse(el, "height", key.height) - 2 * p))

\* the rectangle of an operation in key-local, y-down millimetres
PdfLocalRect(op, key, paper) ==
  LET o == pdfOrigin(key, paper)
  IN rect(pointsToMm(fSub(op.rect.x, o.x)),
          fSub(fSub(mm(key.height), pointsToMm(fSub(op.rect.y, o.y))), pointsToMm(op.rect.height)),
          pointsToMm(op.rect.width), pointsToMm(op.rect.height))

SvgLocalRect(op, key, paper) ==
  rect(fSub(op.rect.x, mm(paper.marginMm + key.x)), fSub(op.rect.y, mm(paper.marginMm + key.y)),
       op.rect.width, op.rect.height)

CanvasLocalRect(op, dpi) ==
  rect(pixelsToMm(op.rect.x, dpi), pixelsToMm(op.rect.y, dpi),
       pixelsToMm(op.rect.width, dpi), pixelsToMm(op.rect.height, dpi))

WithRect(ops) == {op \in Range(ops) : "rect" \in DOMAIN op}

CanvasDpi == fMul(of(canvas.paper.dpi), canvas.effectiveScale)

\* C14: canvas, PDF and SVG all draw an element in the rectangle
\* (x + p, y + p, width - 2p, height - 2p) with the effective padding p.
C14_SameElementRectangle ==
  /\ pdf.status = "saved" =>
       \A op \in WithRect(pdf.ops) :
         LET key == KeyById(pdf.project.layout.keys, op.key)
         IN PdfLocalRect(op, key, pdf.project.paper) = ExpectedRect(key, ElById(key, op.el))
  /\ svg.done =>
       \A op \in WithRect(svg.ops) :
         LET key == KeyById(svg.project.layout.keys, op.key)
         IN SvgLocalRect(op, key, svg.project.paper) = ExpectedRect(key, ElById(key, op.el))
  /\ canvas.done =>
       \A op \in WithRect(canvas.ops) :
         LET key == KeyById(canvas.keys, op.key)
         IN CanvasLocalRect(op, CanvasDpi) = ExpectedRect(key, ElById(key, op.el))

\* the smaller and the larger of two numbers, the least and the greatest of a set
fMin(a, b) == IF fLe(a, b) THEN a ELSE b
fMax(a, b) == IF fLe(a, b) THEN b ELSE a
fLeast(S) == CHOOSE m \in S : \A v \in S : fLe(m, v)
fGreatest(S) == CHOOSE m \in S : \A v \in S : fLe(v, m)

\* width and height of the bounding box of an outline
BoxWidth(pts) ==
  fSub(fGreatest({q.x : q \in Range(pts)}), fLeast({q.x : q \in Range(pts)}))
BoxHeight(pts) ==
  fSub(fGreatest({q.y : q \in Range(pts)}), fLeast({q.y : q \in Range(pts)}))

\* edge i of a closed outline runs from vertex i to the next one
EdgeEnd(pts, i) == pts[(i % Len(pts)) + 1]

\* edges i and j of an outline with axis-parallel edges share a point that is
\* not an end of both
EdgesCross(pts, i, j) ==
  LET p == pts[i]
      q == EdgeEnd(pts, i)
      r == pts[j]
      s == EdgeEnd(pts, j)
      xlo == fMax(fMin(p.x, q.x), fMin(r.x, s.x))
      xhi == fMin(fMax(p.x, q.x), fMax(r.x, s.x))
      ylo == fMax(fMin(p.y, q.y), fMin(r.y, s.y))
      yhi == fMin(fMax(p.y, q.y), fMax(r.y, s.y))
  IN /\ fLe(xlo, xhi)
     /\ fLe(ylo, yhi)
     /\ ~(xlo = xhi /\ ylo = yhi /\ pt(xlo, ylo) \in {p, q} /\ pt(xlo, ylo) \in {r, s})

SimpleOutline(pts) ==
  \A i, j \in 1..Len(pts) : i < j => ~EdgesCross(pts, i, j)

OutlineSound(op, key, width, height) ==
  /\ op.closed
  /\ SimpleOutline(op.pts)
  /\ BoxWidth(op.pts) = width
  /\ BoxHeight(op.pts) = height
  /\ key.keyType \in {"iso-enter", "big-enter"} => Len(op.pts) = 6

\* C15: for every key type, width > 0 and height > 0 the outline (of the SVG
\* and of the canvas) is a closed polygon that does not intersect itself, its
\* bounding box is exactly width x height, and an iso-enter or big-enter
\* outline has six vertices.
C15_OutlineFitsKey ==
  /\ svg.done =>
       \A op \in OpsOf(svg.ops, "outline") :
         LET key == KeyById(svg.project.layout.keys, op.key)
         IN OutlineSound(op, key, mm(key.width), mm(key.height))
  /\ canvas.done =>
       \A op \in OpsOf(canvas.ops, "outline") :
         LET key == KeyById(canvas.keys, op.key)
         IN OutlineSound(op, key,
                         fMul(mmToPixels(mm(key.width), of(canvas.paper.dpi)), canvas.effectiveScale),
                         fMul(mmToPixels(mm(key.height), of(canvas.paper.dpi)), canvas.effectiveScale))

\* the image operations whose image has a natural width and height > 0
Natural(key, op) == ElById(key, op.el).dataUrl
SizedImages(ops, keys) ==
  {op \in OpsOf(ops, "image") :
     LET n == Natural(KeyById(keys, op.key), op) IN n.width > 0 /\ n.height > 0}

\* where an alignment keyword puts the near edge of the drawn rectangle,
\* measured from the near edge of the available one
ExpectedOffset(align, near, far, avail, draw) ==
  IF align = near THEN of(0)
  ELSE IF align = far THEN fSub(avail, draw)
  ELSE fDiv(fSub(avail, draw), of(2))

AlignedAs(el, leftOffset, topOffset, avail, draw) ==
  /\ leftOffset = ExpectedOffset(el.alignX, "left", "right", avail.width, draw.width)
  /\ topOffset = ExpectedOffset(el.alignY, "top", "bottom", avail.height, draw.height)

\* the preserveAspectRatio alignment that says the same as alignX / alignY
SvgAlignOf(el) ==
  [left |-> "xMin", center |-> "xMid", right |-> "xMax"][el.alignX]
  \o [top |-> "YMin", center |-> "YMid", bottom |-> "YMax"][el.alignY]

\* C16: in every renderer, seen in the key's top-left, y-down frame, alignX
\* left / right puts the drawn left / right edge on the available one, alignY
\* top / bottom the drawn top / bottom edge, and center centres the image.
C16_ImageAlignment ==
  /\ pdf.status = "saved" =>
       \A op \in SizedImages(pdf.ops, pdf.project.layout.keys) :
         AlignedAs(ElById(KeyById(pdf.project.layout.keys, op.key), op.el),
                   fSub(op.draw.x, op.rect.x),
                   fSub(fAdd(op.rect.y, op.rect.height), fAdd(op.draw.y, op.draw.height)),
                   op.rect, op.draw)
  /\ canvas.done =>
       \A op \in SizedImages(canvas.ops, canvas.keys) :
         AlignedAs(ElById(KeyById(canvas.keys, op.key), op.el),
                   fSub(op.draw.x, op.rect.x), fSub(op.draw.y, op.rect.y),
                   op.rect, op.draw)
  /\ svg.done =>
       \A op \in SizedImages(svg.ops, svg.project.layout.keys) :
         op.preserveAspectRatio.align
           = SvgAlignOf(ElById(KeyById(svg.project.layout.keys, op.key), op.el))

\* the image operations of the PDF and of the canvas, each with its element
FitCases ==
  {[op |-> op, el |-> ElById(KeyById(pdf.project.layout.keys, op.key), op.el)] :
     op \in IF pdf.status = "idle" THEN {} ELSE OpsOf(pdf.ops, "image")}
  \cup
  {[op |-> op, el |-> ElById(KeyById(canvas.keys, op.key), op.el)] :
     op \in IF canvas.done THEN OpsOf(canvas.ops, "image") ELSE {}}

Positive(v) == fLt(of(0), v)

\* C17: for an available rectangle and an image of positive sizes, contain
\* draws no wider and no higher than the available rectangle, cover draws no
\* narrower and no lower, and both keep the natural aspect ratio.
C17_FitBounds ==
  \A c \in FitCases :
    (/\ Positive(c.op.rect.width) /\ Positive(c.op.rect.height)
     /\ c.el.dataUrl.width > 0 /\ c.el.dataUrl.height > 0
     /\ c.el.fit \in Fits) =>
      /\ c.el.fit = "contain" =>
           fLe(c.op.draw.width, c.op.rect.width) /\ fLe(c.op.draw.height, c.op.rect.height)
      /\ c.el.fit = "cover" =>
           fLe(c.op.rect.width, c.op.draw.width) /\ fLe(c.op.rect.height, c.op.draw.height)
      /\ fMul(c.op.draw.width, of(c.el.dataUrl.height))
           = fMul(c.op.draw.height, of(c.el.dataUrl.width))

\* the PDF and the canvas both drew an image under cover that is higher than
\* the available rectangle
C17_Witness ==
  /\ \E c \in FitCases :
       /\ "at" \in DOMAIN c.op /\ c.el.fit = "cover"
       /\ Positive(c.op.rect.width) /\ Positive(c.op.rect.height)
       /\ c.el.dataUrl.width > 0 /\ c.el.dataUrl.height > 0
       /\ fLt(c.op.rect.height, c.op.draw.height)
  /\ \E c \in FitCases :
       /\ "at" \notin DOMAIN c.op /\ c.el.fit = "cover"
       /\ Positive(c.op.rect.width) /\ Positive(c.op.rect.height)
       /\ c.el.dataUrl.width > 0 /\ c.el.dataUrl.height > 0
       /\ fLt(c.op.rect.height, c.op.draw.height)

\* C18: when the natural height of an image is zero the fit computation is
\* skipped: the image is drawn in exactly the available rectangle.
C18_ZeroHeightFillsAvailable ==
  \A c \in FitCases :
    (c.el.dataUrl.height = 0 /\ c.el.fit \in Fits) =>
      c.op.draw.width = c.op.rect.width /\ c.op.draw.height = c.op.rect.height

\* the elements of the exported project that are not images, and the images
\* that cannot be embedded
PdfKeys == pdf.project.layout.keys
Undecodable(el) == el.type = "image" /\ embedImage(el).outcome # "image"

\* C19: a PDF export skips an image element that is unsupported or cannot be
\* decoded without drawing it, completes, and emits every other key and
\* element.
C19_UndecodableImageIsSkipped ==
  /\ pdf.status # "rejected"
  /\ pdf.status = "saved" =>
       \A k \in 1..Len(PdfKeys) :
         /\ \E op \in OpsOf(pdf.ops, "outline") : op.key = PdfKeys[k].id
         /\ \A el \in Range(PdfKeys[k].elements) :
              IF Undecodable(el)
              THEN ~\E op \in Range(pdf.ops) : op.key = PdfKeys[k].id /\ op.el = el.id
              ELSE \E op \in Range(pdf.ops) : op.key = PdfKeys[k].id /\ op.el = el.id

\* where the PDF / the SVG puts the start of a text's baseline, from the
\* top-left corner of the key, in y-down millimetres
PdfTextOffset(op, key, paper) ==
  pt(fSub(pointsToMm(op.at.x), mm(paper.marginMm + key.x)),
     fSub(fSub(mm(PageHeight(paper)), pointsToMm(op.at.y)), mm(paper.marginMm + key.y)))

SvgTextOffset(op, key, paper) ==
  pt(fSub(op.x, mm(paper.marginMm + key.x)), fSub(op.y, mm(paper.marginMm + key.y)))

\* what converting between points and millimetres in floating point may
\* lose: a thousandth of a millimetre
ConversionTolerance == num(1, 1000)

Near(a, b) ==
  /\ fLe(fSub(a, b), ConversionTolerance)
  /\ fLe(fSub(b, a), ConversionTolerance)

\* C21: for the single 18 x 18 mm rect key at (0, 0) on A4 portrait with a
\* 6 mm margin whose text element fills the key, the baseline of the text
\* in the PDF and in the SVG is at the same offset from the key's top-left
\* corner, in millimetres, up to conversion rounding.
C21_TextBaselineAgrees ==
  (BothExported /\ pdf.project = Content(BaselineProject)) =>
    \A po \in OpsOf(pdf.ops, "text"), so \in OpsOf(svg.ops, "text") :
      po.el = so.el =>
        LET p == PdfTextOffset(po, BaselineKey, RenderPaper)
            q == SvgTextOffset(so, BaselineKey, RenderPaper)
        IN Near(p.x, q.x) /\ Near(p.y, q.y)

(***************************************************************************)
(* Exports while the store is edited                                       *)
(***************************************************************************)
\* store actions issued in one behaviour of SpecExport
MaxExportEdits == 2

\* an uploaded 2 x 1 px PNG (importers.ts:365-379)
ExportImage(id) ==
  assign(imageElement("contain", "center", "center",
                      [mime |-> "image/png", payload |-> "png", width |-> 2, height |-> 1],
                      360, 360),
         [id |-> id])

\* a project with two keys that carry images; the second key of the array
\* is the one further left
ExportProject ==
  [root |-> 0, paperId |-> 1, layoutId |-> 2, paper |-> RenderPaper,
   layout |-> [name |-> "Macro Pad",
               keys |-> << createKey([x |-> 400, y |-> 0, width |-> 360, height |-> 360,
                                      elements |-> <<ExportImage(13)>>], 101),
                           createKey([x |-> 0, y |-> 0, width |-> 360, height |-> 360,
                                      elements |-> <<RenderLegend, ExportImage(15)>>], 102) >>],
   updatedAt |-> 0]

\* importers.ts:413-421  a width typed into the inspector
ExportPatches == { [width |-> 540] }

InitExport ==
  /\ project = ExportProject
  /\ past = <<>>
  /\ future = <<>>
  /\ nextOid = 3
  /\ clock = 0
  /\ lastOp = "init"
  /\ before = [project |-> ExportProject, past |-> <<>>, future |-> <<>>]
  /\ run = IdleRun
  /\ cutOut = NoCut
  /\ InitView

\* no export ran yet in this behaviour (one export is followed at a time)
NoExportYet == pdf = IdlePdf /\ svg = NoSvg

NextExport ==
  \/ clock < MaxExportEdits /\ addKey([f \in {} |-> 0])
  \/ clock < MaxExportEdits /\ \E id \in KeyIds, patch \in ExportPatches : updateKey(id, patch)
  \/ clock < MaxExportEdits /\ setProject
  \/ undo
  \/ redo
  \/ NoExportYet /\ \E viewMode \in ViewModes : handleExportPdf(viewMode, FALSE)
  \/ pdfResume
  \/ NoExportYet /\ \E viewMode \in ViewModes : handleExportSvg(viewMode)

SpecExport == InitExport /\ [][NextExport]_vars

(***************************************************************************)
(* Claims about exports and the store (checked under SpecExport)           *)
(***************************************************************************)
\* a step of an export: handleExportPdf, a resumption of exportProjectToPdf,
\* or handleExportSvg
ExportStep == pdf' # pdf \/ svg' # svg

\* C22: an export, on the layout or on the cut sheet, finished or left
\* suspended, never changes the store: project (with the order, positions
\* and rotations of its keys), past and future are what they were.
C22_ExportLeavesStore ==
  [][ExportStep => UNCHANGED <<project, past, future>>]_vars

C22_Witness ==
  /\ pdf.status = "saved"
  /\ pdf.seen[1] > 0
  /\ pdf.viewMode = "cut"
  /\ pdf.project.layout.keys[1].id # project.layout.keys[1].id
  /\ past # <<>>
  /\ future # <<>>

\* exportProjectToPdf run from its start to its end on the project value p
RECURSIVE pdfRunOn(_)
pdfRunOn(x) == IF x.status = "running" THEN pdfRunOn(pdfAfterEmbed(x)) ELSE x

PdfOf(p, includeRuler) == pdfRunOn(pdfAdvance(p, includeRuler, 1, 0, <<>>))

IsPrefix(s, t) == Len(s) <= Len(t) /\ SubSeq(t, 1, Len(s)) = s

\* C23: whatever store actions run while a PDF export is suspended, what it
\* has emitted and goes on to emit is what an export of the project value
\* it was started with emits.
C23_ExportOfOwnSnapshot ==
  (pdf.status # "idle" /\ pdf.seen # <<>>) =>
    LET whole == PdfOf(pdf.project, pdf.includeRuler)
    IN /\ IsPrefix(pdf.ops, whole.ops)
       /\ pdf.status \in {"saved", "rejected"} =>
            (pdf.status = whole.status /\ pdf.ops = whole.ops)

\* an export finished after the store changed while it waited for an image
C23_Witness ==
  /\ pdf.status = "saved"
  /\ pdf.viewMode = "layout"
  /\ Len(pdf.seen) >= 2
  /\ pdf.seen[1] < pdf.seen[Len(pdf.seen)]
  /\ \E op \in OpsOf(pdf.ops, "image") : op.key = 102

(***************************************************************************)
(* Loading a project file                                                  *)
(***************************************************************************)
\* the value has the structure of a project: paper and layout.keys
isProject(v) ==
  /\ "paper" \in DOMAIN v
  /\ "layout" \in DOMAIN v
  /\ "keys" \in DOMAIN v.layout

\* What a chosen file holds (part_000:190-205): text that JSON.parse rejects,
\* the JSON null, the JSON {}, a JSON object with paper but without layout,
\* and a project saved by the application.
LoadDocs(oid) ==
  { [json |-> "syntax error", value |-> <<>>],
    [json |-> "null", value |-> <<>>],
    [json |-> "value", value |-> [f \in {} |-> 0]],
    [json |-> "value",
     value |-> [paper |-> [size |-> "A4", orientation |-> "portrait",
                           marginMm |-> 120, dpi |-> 300]]],
    [json |-> "value", value |-> loadedTwoKeys(oid)] }

\* the document is a structurally valid project
wellFormed(doc) == doc.json = "value" /\ isProject(doc.value)

\* part_000:196-203: JSON.parse throws on a syntax error and setProject
\* throws on null when it reads project.paper (store.ts:100); catch logs the
\* error and nothing was set
loadThrows(doc) == doc.json \in {"syntax error", "null"}

\* part_000:190-205  loadProject: setProject(parsed); setSelectedKeys([])
loadProject(doc) ==
  /\ clock < MaxEdits
  /\ IF loadThrows(doc)
     THEN UNCHANGED <<project, past, future, selectedKeys, run, snapVars>>
     ELSE /\ project' = doc.value
          /\ past' = <<>>
          /\ future' = <<>>
          /\ snapToGrid' = TRUE
          /\ gridSize' = defaultGridSize
          /\ selectedKeys' = <<>>
          /\ run' = IdleRun
  /\ Track(IF wellFormed(doc) THEN "loadProject" ELSE "loadProject: malformed")
  /\ nextOid' = IF loadThrows(doc) THEN nextOid ELSE nextOid + 3
  /\ clock' = clock + 1
  /\ UNCHANGED <<cutOut, pdf, svg, canvas, built>>

\* store.ts:168  setSelectedKeys(ids), as a click on a key calls it
\* (Sidebar.tsx:284)
setSelectedKeys(ids) ==
  /\ selectedKeys # ids
  /\ selectedKeys' = ids
  /\ Track("setSelectedKeys")
  /\ UNCHANGED <<project, past, future, nextOid, clock, run, cutOut, pdf, svg, canvas,
                 built, snapVars>>

\* The store with file loads.  An updater run on a value without layout.keys
\* throws inside set(), which leaves the store as it was, and the canvas has
\* no key to click on.
NextLoad ==
  \/ isProject(project) /\ \E key \in AddKeyInputs : addKey(key)
  \/ isProject(project) /\ \E id \in KeyIds : setSelectedKeys(<<id>>)
  \/ \E doc \in LoadDocs(nextOid) : loadProject(doc)
  \/ undo
  \/ redo

SpecLoad == Init /\ [][NextLoad]_vars

(***************************************************************************)
(* Claims about loading (checked under SpecLoad)                           *)
(***************************************************************************)
\* C20: loading a document that is not a structurally valid project (whether
\* or not it is valid JSON) leaves the current project, the history stacks and
\* the selection unchanged.
C20_MalformedLoadIsAtomic ==
  [][lastOp' = "loadProject: malformed"
       => UNCHANGED <<project, past, future, selectedKeys>>]_vars

(***************************************************************************)
(* The built-in templates (importers.ts).  Their lengths are not all       *)
(* multiples of 1/20 mm (1.75 u = 23.625 mm), so the builders work in      *)
(* units of 1/40 mm: 13.5 mm = 540, 2 mm = 80.                             *)
(***************************************************************************)
\* a length of the store model (1/20 mm) in the unit of the templates
inTemplateUnits(v) == 2 * v

\* importers.ts:7-9
UNIT_MM == inTemplateUnits(DEFAULT_KEY_SIZE)
GAP_MM == inTemplateUnits(DEFAULT_KEY_GAP)
STEP_MM == UNIT_MM + GAP_MM

\* importers.ts:11-34  buildUniformGrid; calls: the nanoid() calls made so far
buildUniformGrid(rows, cols, keySizeMm, gapMm, startX, startY, calls) ==
  [n \in 1..(rows * cols) |->
     createKey([x      |-> startX + ((n - 1) % cols) * (keySizeMm + gapMm),
                y      |-> startY + ((n - 1) \div cols) * (keySizeMm + gapMm),
                width  |-> keySizeMm,
                height |-> keySizeMm],
               nanoid(calls + n - 1))]

\* importers.ts:35-37
buildGridTemplate(rows, cols, keySizeMm, gapMm, calls) ==
  buildUniformGrid(rows, cols, keySizeMm, gapMm, 0, 0, calls)

\* A cell of a row definition: u and h count quarters of a unit (u: 1.25
\* is 5), so that (cell.u ?? 1) * UNIT_MM is u * UNIT_MM / 4.
\* importers.ts:45-46  w and h of a cell
cellWidth(cell) == (orDefault(cell, "u", 4) * UNIT_MM) \div 4
cellHeight(cell) == (orDefault(cell, "h", 4) * UNIT_MM) \div 4

RECURSIVE buildMatrixRow(_, _, _, _, _)
\* importers.ts:44-58  row.forEach: the cells from the c-th on, x running
buildMatrixRow(row, c, x, y, calls) ==
  IF c > Len(row) THEN <<>>
  ELSE << createKey([x |-> x, y |-> y, width |-> cellWidth(row[c]),
                     height |-> cellHeight(row[c]),
                     keyType |-> orDefault(row[c], "type", "rect")],
                    nanoid(calls)) >>
       \o buildMatrixRow(row, c + 1, x + cellWidth(row[c]) + GAP_MM, y, calls + 1)

RECURSIVE buildMatrixRows(_, _, _, _, _)
\* importers.ts:41-59  rowDefs.forEach: the rows from the r-th on (r from 0)
buildMatrixRows(rowDefs, r, startX, startY, calls) ==
  IF r >= Len(rowDefs) THEN <<>>
  ELSE buildMatrixRow(rowDefs[r + 1], 1, startX, startY + r * STEP_MM, calls)
       \o buildMatrixRows(rowDefs, r + 1, startX, startY, calls + Len(rowDefs[r + 1]))

\* importers.ts:39-60
buildMatrixTemplate(rowDefs, startX, startY, calls) ==
  buildMatrixRows(rowDefs, 0, startX, startY, calls)

\* importers.ts:62  makeRow(count): count cells {}
makeRow(count) == [i \in 1..count |-> [f \in {} |-> 0]]

\* a cell { u }, { h }, { u, h }, { u, type }
cellU(u) == [u |-> u]
cellH(h) == [h |-> h]

\* importers.ts:64
ANSI_FROW == << makeRow(15) >>

\* importers.ts:66-72
ANSI_MAIN_ROWS ==
  << makeRow(12) \o <<cellU(8)>>,
     <<cellU(6)>> \o makeRow(11) \o <<cellU(6)>>,
     <<cellU(7)>> \o makeRow(11) \o <<cellU(9)>>,
     <<cellU(9)>> \o makeRow(10) \o <<cellU(11)>>,
     <<cellU(5), cellU(5), cellU(5), cellU(25), cellU(5), cellU(5), cellU(5)>> >>

\* importers.ts:74-80
ISO_MAIN_ROWS ==
  << makeRow(12) \o <<cellU(8)>>,
     <<cellU(6)>> \o makeRow(11) \o <<[u |-> 4, type |-> "iso-enter"]>>,
     <<cellU(7)>> \o makeRow(11) \o <<cellU(4)>>,
     <<cellU(5), cellU(4)>> \o makeRow(10) \o <<[u |-> 4, type |-> "iso-enter"]>>,
     <<cellU(5), cellU(5), cellU(5), cellU(25), cellU(5), cellU(5), cellU(5)>> >>

\* importers.ts:82
ARROW_CLUSTER == << makeRow(2), makeRow(3) >>

\* importers.ts:84-91
NUMPAD_CLUSTER ==
  << makeRow(4),
     makeRow(3) \o <<cellH(8)>>,
     makeRow(3) \o <<cellH(8)>>,
     makeRow(4),
     <<cellU(8)>> \o makeRow(1) \o <<[u |-> 4, h |-> 8]>>,
     makeRow(1) >>

\* importers.ts:93-95
buildArrowCluster(offsetX, offsetY, calls) ==
  buildMatrixTemplate(ARROW_CLUSTER, offsetX, offsetY, calls)

\* importers.ts:97-99
buildNumpadCluster(offsetX, offsetY, calls) ==
  buildMatrixTemplate(NUMPAD_CLUSTER, offsetX, offsetY, calls)

\* importers.ts:102-163
ANSI_60_LAYOUT ==
  << [x |-> 550, y |-> 0, w |-> 540, h |-> 540, keyType |-> "rect"],
     [x |-> 1100, y |-> 0, w |-> 540, h |-> 540, keyType |-> "rect"],
     [x |-> 1650, y |-> 0, w |-> 540, h |-> 540, keyType |-> "rect"],
     [x |-> 2200, y |-> 0, w |-> 540, h |-> 540, keyType |-> "rect"],
     [x |-> 2750, y |-> 0, w |-> 540, h |-> 540, keyType |-> "rect"],
     [x |-> 3300, y |-> 0, w |-> 540, h |-> 540, keyType |-> "rect"],
     [x |-> 3850, y |-> 0, w |-> 540, h |-> 540, keyType |-> "rect"],
     [x |-> 4400, y |-> 0, w |-> 540, h |-> 540, keyType |-> "rect"],
     [x |-> 4950, y |-> 0, w |-> 540, h |-> 540, keyType |-> "rect"],
     [x |-> 5500, y |-> 0, w |-> 540, h |-> 540, keyType |-> "rect"],
     [x |-> 6050, y |-> 0, w |-> 540, h |-> 540, keyType |-> "rect"],
     [x |-> 7150, y |-> 0, w |-> 1080, h |-> 540, keyType |-> "rect"],
     [x |-> 0, y |-> 550, w |-> 810, h |-> 540, keyType |-> "rect"],
     [x |-> 820, y |-> 550, w |-> 540, h |-> 540, keyType |-> "rect"],
     [x |-> 1370, y |-> 550, w |-> 540, h |-> 540, keyType |-> "rect"],
     [x |-> 1920, y |-> 550, w |-> 540, h |-> 540, keyType |-> "rect"],
     [x |-> 2470, y |-> 550, w |-> 540, h |-> 540, keyType |-> "rect"],
     [x |-> 3020, y |-> 550, w |-> 540, h |-> 540, keyType |-> "rect"],
     [x |-> 3570, y |-> 550, w |-> 540, h |-> 540, keyType |-> "rect"],
     [x |-> 4120, y |-> 550, w |-> 540, h |-> 540, keyType |-> "rect"],
     [x |-> 4670, y |-> 550, w |-> 540, h |-> 540, keyType |-> "rect"],
     [x |-> 5220, y |-> 550, w |-> 540, h |-> 540, keyType |-> "rect"],
     [x |-> 5770, y |-> 550, w |-> 540, h |-> 540, keyType |-> "rect"],
     [x |-> 6320, y |-> 550, w |-> 540, h |-> 540, keyType |-> "rect"],
     [x |-> 7420, y |-> 550, w |-> 810, h |-> 540, keyType |-> "rect"],
     [x |-> 0, y |-> 1100, w |-> 945, h |-> 540, keyType |-> "rect"],
     [x |-> 960, y |-> 1100, w |-> 540, h |-> 540, keyType |-> "rect"],
     [x |-> 1510, y |-> 1100, w |-> 540, h |-> 540, keyType |-> "rect"],
     [x |-> 2060, y |-> 1100, w |-> 540, h |-> 540, keyType |-> "rect"],
     [x |-> 2610, y |-> 1100, w |-> 540, h |-> 540, keyType |-> "rect"],
     [x |-> 3160, y |-> 1100, w |-> 540, h |-> 540, keyType |-> "rect"],
     [x |-> 3710, y |-> 1100, w |-> 540, h |-> 540, keyType |-> "rect"],
     [x |-> 4260, y |-> 1100, w |-> 540, h |-> 540, keyType |-> "rect"],
     [x |-> 4810, y |-> 1100, w |-> 540, h |-> 540, keyType |-> "rect"],
     [x |-> 5360, y |-> 1100, w |-> 540, h |-> 540, keyType |-> "rect"],
     [x |-> 5910, y |-> 1100, w |-> 540, h |-> 540, keyType |-> "rect"],
     [x |-> 6460, y |-> 1100, w |-> 540, h |-> 540, keyType |-> "rect"],
     [x |-> 7010, y |-> 1100, w |-> 1215, h |-> 540, keyType |-> "rect"],
     [x |-> 0, y |-> 1650, w |-> 1215, h |-> 540, keyType |-> "rect"],
     [x |-> 1230, y |-> 1650, w |-> 540, h |-> 540, keyType |-> "rect"],
     [x |-> 1780, y |-> 1650, w |-> 540, h |-> 540, keyType |-> "rect"],
     [x |-> 2330, y |-> 1650, w |-> 540, h |-> 540, keyType |-> "rect"],
     [x |-> 2880, y |-> 1650, w |-> 540, h |-> 540, keyType |-> "rect"],
     [x |-> 3430, y |-> 1650, w |-> 540, h |-> 540, keyType |-> "rect"],
     [x |-> 3980, y |-> 1650, w |-> 540, h |-> 540, keyType |-> "rect"],
     [x |-> 4530, y |-> 1650, w |-> 540, h |-> 540, keyType |-> "rect"],
     [x |-> 5080, y |-> 1650, w |-> 540, h |-> 540, keyType |-> "rect"],
     [x |-> 5630, y |-> 1650, w |-> 540, h |-> 540, keyType |-> "rect"],
     [x |-> 6180, y |-> 1650, w |-> 540, h |-> 540, keyType |-> "rect"],
     [x |-> 6740, y |-> 1650, w |-> 1485, h |-> 540, keyType |-> "rect"],
     [x |-> 0, y |-> 2200, w |-> 675, h |-> 540, keyType |-> "rect"],
     [x |-> 690, y |-> 2200, w |-> 675, h |-> 540, keyType |-> "rect"],
     [x |-> 1380, y |-> 2200, w |-> 675, h |-> 540, keyType |-> "rect"],
     [x |-> 2080, y |-> 2200, w |-> 3375, h |-> 540, keyType |-> "rect"],
     [x |-> 5480, y |-> 2200, w |-> 675, h |-> 540, keyType |-> "rect"],
     [x |-> 6170, y |-> 2200, w |-> 675, h |-> 540, keyType |-> "rect"],
     [x |-> 6860, y |-> 2200, w |-> 675, h |-> 540, keyType |-> "rect"],
     [x |-> 6600, y |-> 0, w |-> 540, h |-> 540, keyType |-> "rect"],
     [x |-> 6870, y |-> 550, w |-> 540, h |-> 540, keyType |-> "rect"],
     [x |-> 7550, y |-> 2200, w |-> 676, h |-> 540, keyType |-> "rect"] >>

\* importers.ts:169, 180  arrowOffsetX = 15 * STEP_MM
arrowOffsetX == 15 * STEP_MM
\* importers.ts:170, 181  arrowOffsetY = STEP_MM * 2.5
arrowOffsetY == (STEP_MM * 5) \div 2
\* importers.ts:172, 183  numpadOffsetX = arrowOffsetX + 4 * STEP_MM
numpadOffsetX == arrowOffsetX + 4 * STEP_MM

\* importers.ts:165-175  buildAnsi104Template
buildAnsi104Template(calls) ==
  LET frow   == buildMatrixTemplate(ANSI_FROW, 0, 0, calls)
      main   == buildMatrixTemplate(ANSI_MAIN_ROWS, 0, STEP_MM, calls + Len(frow))
      arrows == buildArrowCluster(arrowOffsetX, arrowOffsetY, calls + Len(frow) + Len(main))
      numpad == buildNumpadCluster(numpadOffsetX, STEP_MM,
                                   calls + Len(frow) + Len(main) + Len(arrows))
  IN frow \o main \o arrows \o numpad

\* importers.ts:177-186  buildIso105Template
buildIso105Template(calls) ==
  LET main   == buildMatrixTemplate(ISO_MAIN_ROWS, 0, STEP_MM, calls)
      arrows == buildArrowCluster(arrowOffsetX, arrowOffsetY, calls + Len(main))
      numpad == buildNumpadCluster(numpadOffsetX, STEP_MM, calls + Len(main) + Len(arrows))
  IN main \o arrows \o numpad

\* importers.ts:188-198  buildAnsi60Template
buildAnsi60Template(calls) ==
  [n \in 1..Len(ANSI_60_LAYOUT) |->
     createKey([x |-> ANSI_60_LAYOUT[n].x, y |-> ANSI_60_LAYOUT[n].y,
                width |-> ANSI_60_LAYOUT[n].w, height |-> ANSI_60_LAYOUT[n].h,
                keyType |-> ANSI_60_LAYOUT[n].keyType],
               nanoid(calls + n - 1))]

\* importers.ts:200-202  buildIso60Template
buildIso60Template(calls) == buildMatrixTemplate(ISO_MAIN_ROWS, 0, 0, calls)

(***************************************************************************)
(* The template builders on their own                                      *)
(***************************************************************************)
\* rows and columns of a grid template
MaxGridRows == 4
MaxGridCols == 4

\* 13.5 mm (the default) and 1 mm keys; no gap, 0.25 mm and 2 mm (the default)
GridKeySizes == {UNIT_MM, 40}
GridGaps == {0, 10, GAP_MM}

KeyboardTemplates == {"ansi104", "iso105", "ansi60", "iso60"}

\* the keys a built-in keyboard template builds
keyboardTemplate(name, calls) ==
  CASE name = "ansi104" -> buildAnsi104Template(calls)
    [] name = "iso105"  -> buildIso105Template(calls)
    [] name = "ansi60"  -> buildAnsi60Template(calls)
    [] name = "iso60"   -> buildIso60Template(calls)

\* importers.ts:35-37  a call of buildGridTemplate
callGridTemplate(rows, cols, keySizeMm, gapMm) ==
  /\ built' = [template |-> "grid", rows |-> rows, cols |-> cols,
               keySizeMm |-> keySizeMm, gapMm |-> gapMm,
               keys |-> buildGridTemplate(rows, cols, keySizeMm, gapMm, 0)]
  /\ UNCHANGED <<project, past, future, nextOid, clock, lastOp, before, run, cutOut,
                 selectedKeys, pdf, svg, canvas, snapVars>>

\* importers.ts:165-202  a call of one of the keyboard templates
callKeyboardTemplate(name) ==
  /\ built' = [template |-> name, keys |-> keyboardTemplate(name, 0)]
  /\ UNCHANGED <<project, past, future, nextOid, clock, lastOp, before, run, cutOut,
                 selectedKeys, pdf, svg, canvas, snapVars>>

NextTemplates ==
  \/ \E rows \in 1..MaxGridRows, cols \in 1..MaxGridCols,
        keySizeMm \in GridKeySizes, gapMm \in GridGaps :
       callGridTemplate(rows, cols, keySizeMm, gapMm)
  \/ \E name \in KeyboardTemplates : callKeyboardTemplate(name)

SpecTemplates == Init /\ [][NextTemplates]_vars

\* C30: every built-in template (a grid with gap >= 0, ANSI 104, ISO 105,
\* ANSI 60 %, ISO 60 %) builds keys whose bounding boxes are pairwise
\* non-overlapping, the two-row keys of the numpad included.
C30_TemplatesDoNotOverlap ==
  built.template # "none" => NonOverlapping(built.keys)

(***************************************************************************)
(* The editing actions of the store (store.ts:160-308) and the handlers    *)
(* that call them.  Lengths are in 1/20 mm again.                          *)
(***************************************************************************)
\* nanoid() calls one store action may make
NanoidsPerAction == 256

\* the nanoid() calls made before the i-th call of the action running now
callsBefore(i) == NanoidsPerAction * (clock + 1) + i

\* the keys of a template in the unit of the store; padding and
\* cornerRadius are createKey's defaults, which already are in that unit
inStoreUnits(keys) ==
  [i \in DOMAIN keys |->
     assign(keys[i], [x |-> keys[i].x \div 2, y |-> keys[i].y \div 2,
                      width |-> keys[i].width \div 2, height |-> keys[i].height \div 2])]

\* importers.ts:204-224  MIRYOKU_LEFT
MIRYOKU_LEFT ==
  <<
     [x |-> 540, y |-> 640, rotation |-> 0],
     [x |-> 540, y |-> 960, rotation |-> 0],
     [x |-> 540, y |-> 1280, rotation |-> 0],
     [x |-> 860, y |-> 520, rotation |-> 0],
     [x |-> 860, y |-> 840, rotation |-> 0],
     [x |-> 860, y |-> 1160, rotation |-> 0],
     [x |-> 1180, y |-> 400, rotation |-> 0],
     [x |-> 1180, y |-> 720, rotation |-> 0],
     [x |-> 1180, y |-> 1040, rotation |-> 0],
     [x |-> 1500, y |-> 520, rotation |-> 0],
     [x |-> 1500, y |-> 840, rotation |-> 0],
     [x |-> 1500, y |-> 1160, rotation |-> 0],
     [x |-> 1820, y |-> 560, rotation |-> 0],
     [x |-> 1820, y |-> 900, rotation |-> 0],
     [x |-> 1820, y |-> 1220, rotation |-> 0],
     [x |-> 1640, y |-> 1640, rotation |-> 0],
     [x |-> 1980, y |-> 1660, rotation |-> 6],
     [x |-> 2320, y |-> 1720, rotation |-> 12]
  >>

\* importers.ts:226-254  buildCheapinoTemplate(keySizeMm, paperWidthMm)
buildCheapinoTemplate(keySizeMm, paperWidthMm, calls) ==
  LET maxLeftX   == maxOf([i \in 1..Len(MIRYOKU_LEFT) |-> MIRYOKU_LEFT[i].x])
      minCenter  == maxLeftX + keySizeMm + 120
      nearEdge   == paperWidthMm - keySizeMm - 120
      mirrorLine == IF nearEdge <= minCenter + 115 THEN nearEdge ELSE minCenter + 115
      n          == Len(MIRYOKU_LEFT)
      addKeyAt(pos, i) ==
        createKey([x |-> pos.x, y |-> pos.y, width |-> keySizeMm, height |-> keySizeMm,
                   rotation |-> pos.rotation],
                  nanoid(calls + i))
  IN [i \in 1..n |-> addKeyAt(MIRYOKU_LEFT[i], i - 1)]
     \o [i \in 1..n |->
           addKeyAt([x        |-> mirrorLine * 2 - MIRYOKU_LEFT[i].x - keySizeMm,
                     y        |-> MIRYOKU_LEFT[i].y,
                     rotation |-> IF MIRYOKU_LEFT[i].rotation # 0
                                  THEN 0 - MIRYOKU_LEFT[i].rotation ELSE 0],
                    n + i - 1)]

\* get().selectedKeys.includes(id)
isSelected(id) == \E i \in 1..Len(selectedKeys) : selectedKeys[i] = id

\* draft.layout.keys.filter((k) => get().selectedKeys.includes(k.id))
selectedOf(keys) == SelectSeq(keys, LAMBDA k : isSelected(k.id))

\* key.elements.find((e) => e.id === elId): its index, 0 when there is none
findElement(elements, elId) ==
  IF \E i \in 1..Len(elements) : elements[i].id = elId
  THEN CHOOSE i \in 1..Len(elements) :
         elements[i].id = elId /\ \A j \in 1..(i - 1) : elements[j].id # elId
  ELSE 0

\* Math.round(v / snap) * snap for snap > 0 (Math.round rounds halves up)
roundToGrid(v, snap) == ((2 * v + snap) \div (2 * snap)) * snap

\* store.ts:169-176  the updater of addElementToKey(keyId, el)
addElementToKeyUpdater(keyId, el) ==
  LET keys == project.layout.keys
      at   == findKey(keys, keyId)
  IN IF at = 0
     THEN draftOf(project.paper, project.layout, FALSE)
     ELSE draftOf(project.paper,
                  [project.layout EXCEPT !.keys[at].elements = Append(@, el)],
                  TRUE)

\* store.ts:177-184  the updater of updateElement(keyId, elId, patch)
updateElementUpdater(keyId, elId, patch) ==
  LET keys == project.layout.keys
      at   == findKey(keys, keyId)
      el   == findElement(keys[at].elements, elId)
  IN IF at = 0
     THEN draftOf(project.paper, project.layout, FALSE)
     ELSE draftOf(project.paper,
                  IF el = 0 THEN project.layout
                  ELSE [project.layout EXCEPT
                          !.keys[at].elements[el] = assign(@, patch)],
                  TRUE)

\* store.ts:185-191  the updater of removeElement(keyId, elId)
removeElementUpdater(keyId, elId) ==
  LET keys == project.layout.keys
      at   == findKey(keys, keyId)
  IN IF at = 0
     THEN draftOf(project.paper, project.layout, FALSE)
     ELSE draftOf(project.paper,
                  [project.layout EXCEPT
                     !.keys[at].elements = SelectSeq(@, LAMBDA e : e.id # elId)],
                  TRUE)

\* store.ts:192-197  the updater of removeSelected()
removeSelectedUpdater ==
  draftOf(project.paper,
          [project.layout EXCEPT !.keys = SelectSeq(@, LAMBDA k : ~isSelected(k.id))],
          TRUE)

\* { ...k, y: k.y + offsetMm }
duplicateRowKeyKeepsId(k, freshId, offsetMm) == assign(k, [y |-> k.y + offsetMm])

\* store.ts:213  { ...k, id: nanoid(), y: k.y + offsetMm }
duplicateRowKey(k, freshId, offsetMm) ==
  assign(k, [id |-> freshId, y |-> k.y + offsetMm])

\* store.ts:221  { ...k, id: nanoid(), x: k.x + offsetMm }
duplicateColumnKey(k, freshId, offsetMm) ==
  assign(k, [id |-> freshId, x |-> k.x + offsetMm])

\* store.ts:209-216  the updater of duplicateRow(offsetMm)
duplicateRowUpdater(offsetMm) ==
  LET keys == selectedOf(project.layout.keys)
  IN draftOf(project.paper,
             [project.layout EXCEPT
                !.keys = @ \o [i \in 1..Len(keys) |->
                                 duplicateRowKey(keys[i], nanoid(callsBefore(i - 1)),
                                                 offsetMm)]],
             TRUE)

\* store.ts:217-224  the updater of duplicateColumn(offsetMm)
duplicateColumnUpdater(offsetMm) ==
  LET keys == selectedOf(project.layout.keys)
  IN draftOf(project.paper,
             [project.layout EXCEPT
                !.keys = @ \o [i \in 1..Len(keys) |->
                                 duplicateColumnKey(keys[i], nanoid(callsBefore(i - 1)),
                                                    offsetMm)]],
             TRUE)

\* `${rows}x${cols} grid`
gridName(rows, cols) == ToString(rows) \o "x" \o ToString(cols) \o " grid"

\* store.ts:225-230  the updater of applyTemplate(rows, cols, keySize, gap)
applyTemplateUpdater(rows, cols, keySize, gap) ==
  draftOf(project.paper,
          [project.layout EXCEPT
             !.keys = inStoreUnits(buildGridTemplate(rows, cols, inTemplateUnits(keySize),
                                                     inTemplateUnits(gap), callsBefore(0))),
             !.name = gridName(rows, cols)],
          TRUE)

\* draft.paper.size === 'A4' ? 'A3' : draft.paper.size
a4ToA3(size) == IF size = "A4" THEN "A3" ELSE size

\* store.ts:231-238  the updater of applyAnsi104()
applyAnsi104Updater ==
  draftOf([project.paper EXCEPT !.size = a4ToA3(@), !.orientation = "landscape"],
          [project.layout EXCEPT
             !.keys = inStoreUnits(buildAnsi104Template(callsBefore(0))),
             !.name = "ANSI 104"],
          TRUE)

\* store.ts:239-246  the updater of applyIso105()
applyIso105Updater ==
  draftOf([project.paper EXCEPT !.size = a4ToA3(@), !.orientation = "landscape"],
          [project.layout EXCEPT
             !.keys = inStoreUnits(buildIso105Template(callsBefore(0))),
             !.name = "ISO 105"],
          TRUE)

\* store.ts:247-253  the updater of applyAnsi60()
applyAnsi60Updater ==
  draftOf([project.paper EXCEPT !.orientation = "landscape"],
          [project.layout EXCEPT
             !.keys = inStoreUnits(buildAnsi60Template(callsBefore(0))),
             !.name = "ANSI 60%"],
          TRUE)

\* store.ts:254-260  the updater of applyIso60()
applyIso60Updater ==
  draftOf([project.paper EXCEPT !.orientation = "landscape"],
          [project.layout EXCEPT
             !.keys = inStoreUnits(buildIso60Template(callsBefore(0))),
             !.name = "ISO 60%"],
          TRUE)

\* the grid step of the Cheapino template: 1 mm (store.ts:267, 276)
cheapinoGridSize == 20

\* store.ts:262-274  the updater of applyCheapinoTemplate()
applyCheapinoTemplateUpdater ==
  LET paper == assign(project.paper,
                      [size |-> "A4", orientation |-> "landscape", marginMm |-> 120,
                       snap |-> [enabled |-> TRUE, mm |-> cheapinoGridSize]])
  IN draftOf(paper,
             [project.layout EXCEPT
                !.keys = buildCheapinoTemplate(DEFAULT_KEY_SIZE,
                                               paperSizeMm(paper.size, paper.orientation).width,
                                               callsBefore(0)),
                !.name = "Cheapino / Miryoku"],
             TRUE)

\* store.ts:280  const snap = get().snapToGrid ? get().gridSize : 0
snapNow == IF snapToGrid THEN gridSize ELSE 0

\* store.ts:283-290  a selected key after the nudge, snapping the sum only
nudgedKeySnapsSum(k, dx, dy, snap) ==
  IF snap # 0
  THEN assign(k, [x |-> roundToGrid(k.x + dx, snap), y |-> k.y + dy])
  ELSE assign(k, [x |-> k.x + dx, y |-> k.y + dy])

\* store.ts:283-290  a selected key after the nudge
nudgedKey(k, dx, dy, snap) ==
  IF snap # 0
  THEN assign(k, [x |-> roundToGrid(k.x + dx, snap), y |-> roundToGrid(k.y + dy, snap)])
  ELSE assign(k, [x |-> k.x + dx, y |-> k.y + dy])

\* store.ts:278-294  the updater of nudgeSelected(dx, dy)
nudgeSelectedUpdater(dx, dy) ==
  LET keys == project.layout.keys
  IN draftOf(project.paper,
             [project.layout EXCEPT
                !.keys = [i \in DOMAIN keys |->
                            IF isSelected(keys[i].id)
                            THEN nudgedKey(keys[i], dx, dy, snapNow) ELSE keys[i]]],
             TRUE)

\* a.x = b.x; a.y = b.y, and b left where it was
swappedKeysOneWay(keys, a, b) ==
  [keys EXCEPT ![a] = assign(keys[a], [x |-> keys[b].x, y |-> keys[b].y])]

\* store.ts:302-306  posA = { x: a.x, y: a.y }; a.x = b.x; a.y = b.y;
\* b.x = posA.x; b.y = posA.y  (a, b: indexes of the two keys)
swappedKeys(keys, a, b) ==
  LET posA   == [x |-> keys[a].x, y |-> keys[a].y]
      afterA == [keys EXCEPT ![a] = assign(keys[a], [x |-> keys[b].x, y |-> keys[b].y])]
  IN [afterA EXCEPT ![b] = assign(afterA[b], posA)]

\* store.ts:295-308  the updater of swapSelected()
swapSelectedUpdater ==
  LET keys == project.layout.keys
      a    == IF Len(selectedKeys) >= 1 THEN findKey(keys, selectedKeys[1]) ELSE 0
      b    == IF Len(selectedKeys) >= 2 THEN findKey(keys, selectedKeys[2]) ELSE 0
  IN IF Len(selectedKeys) < 2 \/ a = 0 \/ b = 0
     THEN draftOf(project.paper, project.layout, FALSE)
     ELSE draftOf(project.paper,
                  [project.layout EXCEPT !.keys = swappedKeys(keys, a, b)],
                  TRUE)

\* store.ts:103-112  the updater of updatePaper(paper), for a patch without snap
updatePaperUpdater(patch) ==
  LET merged == assign(project.paper, patch)
  IN draftOf(IF "snap" \in DOMAIN merged THEN merged
             ELSE assign(merged, [snap |-> [enabled |-> snapToGrid, mm |-> gridSize]]),
             project.layout,
             TRUE)

\* Sidebar.tsx:113  onClick={() => addKey()}
addKeyButton ==
  /\ clock < MaxEdits
  /\ withHistory(addKeyUpdater([f \in {} |-> 0]))
  /\ Track("addKey")

addElementToKey(keyId, el) ==
  /\ clock < MaxEdits
  /\ withHistory(addElementToKeyUpdater(keyId, el))
  /\ Track("addElementToKey")

updateElement(keyId, elId, patch) ==
  /\ clock < MaxEdits
  /\ withHistory(updateElementUpdater(keyId, elId, patch))
  /\ Track("updateElement")

removeElement(keyId, elId) ==
  /\ clock < MaxEdits
  /\ withHistory(removeElementUpdater(keyId, elId))
  /\ Track("removeElement")

\* store.ts:192-197; part_000:158 calls it when something is selected
removeSelected ==
  /\ clock < MaxEdits
  /\ selectedKeys # <<>>
  /\ withHistoryStore(removeSelectedUpdater)
  /\ selectedKeys' = <<>>
  /\ Track("removeSelected")
  /\ UNCHANGED <<cutOut, pdf, svg, canvas, built, snapVars>>

\* Sidebar.tsx:122  the button is disabled while nothing is selected
duplicateRow(offsetMm) ==
  /\ clock < MaxEdits
  /\ selectedKeys # <<>>
  /\ withHistory(duplicateRowUpdater(offsetMm))
  /\ Track("duplicateRow")

duplicateColumn(offsetMm) ==
  /\ clock < MaxEdits
  /\ selectedKeys # <<>>
  /\ withHistory(duplicateColumnUpdater(offsetMm))
  /\ Track("duplicateColumn")

applyTemplate(rows, cols, keySize, gap) ==
  /\ clock < MaxEdits
  /\ withHistory(applyTemplateUpdater(rows, cols, keySize, gap))
  /\ Track("applyTemplate")

applyAnsi104 ==
  /\ clock < MaxEdits
  /\ withHistory(applyAnsi104Updater)
  /\ Track("applyAnsi104")

applyIso105 ==
  /\ clock < MaxEdits
  /\ withHistory(applyIso105Updater)
  /\ Track("applyIso105")

applyAnsi60 ==
  /\ clock < MaxEdits
  /\ withHistory(applyAnsi60Updater)
  /\ Track("applyAnsi60")

applyIso60 ==
  /\ clock < MaxEdits
  /\ withHistory(applyIso60Updater)
  /\ Track("applyIso60")

\* store.ts:261-277  the updater, then set({ snapToGrid: true, gridSize: 1 })
applyCheapinoTemplate ==
  /\ clock < MaxEdits
  /\ withHistoryStore(applyCheapinoTemplateUpdater)
  /\ snapToGrid' = TRUE
  /\ gridSize' = cheapinoGridSize
  /\ Track("applyCheapinoTemplate")
  /\ UNCHANGED <<cutOut, viewVars>>

nudgeSelected(dx, dy) ==
  /\ clock < MaxEdits
  /\ withHistory(nudgeSelectedUpdater(dx, dy))
  /\ Track("nudgeSelected")

swapSelected ==
  /\ clock < MaxEdits
  /\ withHistory(swapSelectedUpdater)
  /\ Track("swapSelected")

updatePaper(patch) ==
  /\ clock < MaxEdits
  /\ withHistory(updatePaperUpdater(patch))
  /\ Track("updatePaper")

\* part_000:160  const step = snapToGrid ? gridSize : 1
nudgeStep(snapOn, grid) == IF snapOn THEN grid ELSE 20

\* part_000:161-166  the arrow keys
ArrowKeys == {"ArrowUp", "ArrowDown", "ArrowLeft", "ArrowRight"}

\* The handler is registered again when the selection changes, not when the
\* snap settings do (part_000:171), so step is the one of the settings it
\* last saw: an input here.
onArrowKey(key, step) ==
  CASE key = "ArrowUp"    -> nudgeSelected(0, 0 - step)
    [] key = "ArrowDown"  -> nudgeSelected(0, step)
    [] key = "ArrowLeft"  -> nudgeSelected(0 - step, 0)
    [] key = "ArrowRight" -> nudgeSelected(step, 0)

\* Sidebar.tsx:525-530  where onDragEnd puts a key that was dragged by
\* (dx, dy): the page coordinate is snapped, then the margin is taken off
droppedAt(k, dx, dy, snap, marginMm) ==
  LET mmX == marginMm + k.x + dx
      mmY == marginMm + k.y + dy
  IN [id |-> k.id,
      x  |-> (IF snap # 0 THEN roundToGrid(mmX, snap) ELSE mmX) - marginMm,
      y  |-> (IF snap # 0 THEN roundToGrid(mmY, snap) ELSE mmY) - marginMm]

\* Sidebar.tsx:507-548  onDragEnd after a drag of the selected keys by (dx, dy)
onDragEnd(dx, dy) ==
  LET keys == project.layout.keys
      at(i) == findKey(keys, selectedKeys[i])
      nodes == SelectSeq([i \in 1..Len(selectedKeys) |-> at(i)], LAMBDA n : n # 0)
      updated == [i \in 1..Len(nodes) |->
                    droppedAt(keys[nodes[i]], dx, dy, snapNow, project.paper.marginMm)]
  IN /\ updated # <<>>
     /\ moveSelectedKeys(updated)

(***************************************************************************)
(* The store under the actions that make, move and remove keys             *)
(***************************************************************************)
\* store actions issued in one behaviour of SpecIds
MaxIdEdits == 2

\* the keys a selection is made of: the first ones of the layout
MaxSelectable == 2

SelectableIds ==
  {project.layout.keys[i].id : i \in 1..(IF Len(project.layout.keys) < MaxSelectable
                                         THEN Len(project.layout.keys)
                                         ELSE MaxSelectable)}

\* clicks and shift-clicks on at most two of them (Sidebar.tsx:284)
Selections ==
  {<<>>} \cup {<<a>> : a \in SelectableIds}
         \cup {<<pair[1], pair[2]>> :
                 pair \in {q \in SelectableIds \X SelectableIds : q[1] # q[2]}}

\* the same, clicked in the order of the layout
LeadingSelections ==
  LET keys == project.layout.keys
      n    == IF Len(keys) < MaxSelectable THEN Len(keys) ELSE MaxSelectable
  IN {[i \in 1..m |-> keys[i].id] : m \in 0..n}

\* Sidebar.tsx:94  the "Row 12" button
GridTemplates == { [rows |-> 1, cols |-> 12, gap |-> 20] }

\* Sidebar.tsx:122  duplicateRow(20)
DuplicateOffsets == {400}

\* importers.ts:413  a width of 18 mm typed into the inspector
IdPatches == { [width |-> 360] }

\* a drag by 6.5 mm to the right and 3 mm up
DragDistances == { [dx |-> 130, dy |-> 0 - 60] }

\* the grid steps set in the toolbar: 2 mm (the default) and 4 mm
GridSizes == {defaultGridSize, 80}

\* the steps the keydown handler may hold: the one of the settings now and
\* the one of the settings the store starts with
NudgeSteps == {nudgeStep(snapToGrid, gridSize), nudgeStep(TRUE, defaultGridSize)}

\* the arrow key pressed while keys are made and removed
IdArrowKeys == {"ArrowRight"}

NextIds ==
  \/ clock < MaxIdEdits /\ addKeyButton
  \/ \E ids \in LeadingSelections : setSelectedKeys(ids)
  \/ clock < MaxIdEdits /\ \E offsetMm \in DuplicateOffsets : duplicateRow(offsetMm)
  \/ clock < MaxIdEdits /\ \E offsetMm \in DuplicateOffsets : duplicateColumn(offsetMm)
  \/ clock < MaxIdEdits /\ \E t \in GridTemplates : applyTemplate(t.rows, t.cols, DEFAULT_KEY_SIZE, t.gap)
  \/ clock < MaxIdEdits /\ applyAnsi104
  \/ clock < MaxIdEdits /\ applyIso105
  \/ clock < MaxIdEdits /\ applyAnsi60
  \/ clock < MaxIdEdits /\ applyIso60
  \/ clock < MaxIdEdits /\ applyCheapinoTemplate
  \/ clock < MaxIdEdits /\ \E id \in SelectableIds, patch \in IdPatches : updateKey(id, patch)
  \/ clock < MaxIdEdits /\ removeSelected
  \/ clock < MaxIdEdits /\ \E d \in DragDistances : onDragEnd(d.dx, d.dy)
  \/ clock < MaxIdEdits /\ \E key \in IdArrowKeys, step \in NudgeSteps : onArrowKey(key, step)
  \/ clock < MaxIdEdits /\ Len(selectedKeys) = 2 /\ swapSelected
  \/ undo
  \/ redo

SpecIds == Init /\ [][NextIds]_vars

DistinctIds(keys) ==
  \A i \in 1..Len(keys), j \in 1..Len(keys) : i # j => keys[i].id # keys[j].id

MaxEditSteps == 2

\* the store's project and history with the counters of the model
storeNow ==
  [project |-> project, past |-> past, future |-> future, nextOid |-> nextOid,
   clock |-> clock]

\* store.ts:160-167 in withHistory (store.ts:75-87): updateKey(id, patch)
\* called on the store s
updateKeyOn(s, id, patch) ==
  LET keys  == s.project.layout.keys
      at    == findKey(keys, id)
      after == IF at = 0 THEN s.project.layout
               ELSE [s.project.layout EXCEPT !.keys[at] = assign(keys[at], patch)]
      draft == [paper     |-> s.project.paper,
                layout    |-> after,
                updatedAt |-> IF at = 0 THEN s.project.updatedAt ELSE nowStamp(s.clock),
                touched   |-> (IF at = 0 THEN {} ELSE {"root"})
                              \cup (IF after # s.project.layout THEN {"root", "layout"}
                                    ELSE {})]
  IN [project |-> produce(s.project, draft, s.nextOid + 3),
      past    |-> withHistoryPast(s.past, jsonClone(s.project, s.nextOid)),
      future  |-> withHistoryFuture(s.future),
      nextOid |-> s.nextOid + OidsPerCall,
      clock   |-> s.clock + 1]

RECURSIVE updateEach(_, _, _)
\* importers.ts:333  selected.forEach((k) => updateKey(k.id, patch))
updateEach(s, ids, patch) ==
  IF ids = <<>> THEN s
  ELSE updateEach(updateKeyOn(s, Head(ids), patch), Tail(ids), patch)

\* importers.ts:302-305  selected: the selected keys, in the order of the layout
inspectorSelected ==
  LET keys == selectedOf(project.layout.keys)
  IN [i \in 1..Len(keys) |-> keys[i].id]

\* importers.ts:332-334  updateAll(patch), from an input of the inspector
\* (which is rendered when a key is selected: importers.ts:322)
updateAll(patch) ==
  LET after == updateEach(storeNow, inspectorSelected, patch)
  IN /\ inspectorSelected # <<>>
     /\ clock + Len(inspectorSelected) <= MaxEdits
     /\ project' = after.project
     /\ past' = after.past
     /\ future' = after.future
     /\ nextOid' = after.nextOid
     /\ clock' = after.clock
     /\ run' = IdleRun
     /\ Track("updateAll")
     /\ UNCHANGED <<cutOut, viewVars, snapVars>>

\* part_000:275-281  the grid size input: useEditorStore.setState({ gridSize })
setGridSize(grid) ==
  /\ gridSize # grid
  /\ gridSize' = grid
  /\ Track("setState")
  /\ UNCHANGED <<project, past, future, nextOid, clock, run, cutOut, viewVars, snapToGrid>>

\* store.ts:382-394  createShapeElement('#2c3a50') (importers.ts:461)
createShapeElement(color, freshId) ==
  [id |-> freshId, type |-> "shape", background |-> color, x |-> 0, y |-> 0,
   width |-> DEFAULT_KEY_SIZE, height |-> DEFAULT_KEY_SIZE, cornerRadius |-> 40,
   zIndex |-> 0]

\* three keys in a row, 20 mm apart, the first with a legend, the second 2u
\* wide and rotated
EditProject ==
  [root |-> 0, paperId |-> 1, layoutId |-> 2,
   paper |-> [size |-> "A4", orientation |-> "portrait", marginMm |-> 120, dpi |-> 300],
   layout |-> [name |-> "Macro Pad",
               keys |-> << createKey([x |-> 0, y |-> 0, width |-> 270, height |-> 270,
                                      elements |-> <<RenderLegend>>], 201),
                           createKey([x |-> 400, y |-> 80, width |-> 540, height |-> 270,
                                      rotation |-> 15, keyType |-> "iso-enter"], 202),
                           createKey([x |-> 800, y |-> 0, width |-> 270, height |-> 270], 203)
                        >>],
   updatedAt |-> 0]

InitEdit ==
  /\ project = EditProject
  /\ past = <<>>
  /\ future = <<>>
  /\ nextOid = 3
  /\ clock = 0
  /\ lastOp = "init"
  /\ before = [project |-> EditProject, past |-> <<>>, future |-> <<>>]
  /\ run = IdleRun
  /\ cutOut = NoCut
  /\ InitView

\* importers.ts:413  a width of 18 mm typed into the inspector
EditPatches == { [width |-> 360] }

\* Sidebar.tsx:73  a margin of 5 mm typed into the sidebar
EditMargins == {100}

\* the key the inspector edits (primary) and a key that is gone
EditKeyIds == {UnknownId} \cup {project.layout.keys[i].id : i \in {1} \cap DOMAIN project.layout.keys}

\* the legend of the first key and an element that is gone
EditElementIds == {UnknownId, RenderLegend.id}

NextEdit ==
  \/ \E ids \in Selections : setSelectedKeys(ids)
  \/ clock < MaxEditSteps /\ \E id \in EditKeyIds, patch \in EditPatches : updateKey(id, patch)
  \/ clock < MaxEditSteps /\ \E id \in EditKeyIds :
       addElementToKey(id, createShapeElement("#2c3a50", nanoid(callsBefore(0))))
  \/ clock < MaxEditSteps /\ \E id \in EditKeyIds, elId \in EditElementIds : updateElement(id, elId, [text |-> "Tab"])
  \/ clock < MaxEditSteps /\ \E id \in EditKeyIds, elId \in EditElementIds : removeElement(id, elId)
  \/ clock < MaxEditSteps /\ moveSelectedKeys(<< [id |-> UnknownId, x |-> 0, y |-> 0] >>)
  \/ clock < MaxEditSteps /\ \E d \in DragDistances : onDragEnd(d.dx, d.dy)
  \/ clock < MaxEditSteps /\ \E key \in ArrowKeys, step \in NudgeSteps : onArrowKey(key, step)
  \/ clock < MaxEditSteps /\ swapSelected
  \/ clock + Len(inspectorSelected) <= MaxEditSteps /\ \E patch \in EditPatches : updateAll(patch)
  \/ \E grid \in GridSizes : setGridSize(grid)
  \/ clock < MaxEditSteps /\ \E marginMm \in EditMargins : updatePaper([marginMm |-> marginMm])
  \/ undo
  \/ redo

SpecEdit == InitEdit /\ [][NextEdit]_vars

(***************************************************************************)
(* Claims about the editing actions (checked under SpecEdit)               *)
(***************************************************************************)
\* a history-wrapped action called with nothing to act on
NoTargetCall ==
  \/ \E patch \in EditPatches : updateKey(UnknownId, patch)
  \/ addElementToKey(UnknownId, createShapeElement("#2c3a50", nanoid(callsBefore(0))))
  \/ \E elId \in EditElementIds : updateElement(UnknownId, elId, [text |-> "Tab"])
  \/ \E elId \in EditElementIds : removeElement(UnknownId, elId)
  \/ moveSelectedKeys(<< [id |-> UnknownId, x |-> 0, y |-> 0] >>)
  \/ Len(selectedKeys) < 2 /\ swapSelected

\* C25: a history-wrapped action that finds no target (updateKey,
\* addElementToKey, updateElement or removeElement with a key id that is not
\* in the layout, moveSelectedKeys with only unknown ids, swapSelected with
\* fewer than two selected keys) leaves the project, past and future
\* unchanged; it does not discard pending redo states.
C25_NoTargetIsNoOp ==
  [][NoTargetCall => UNCHANGED <<project, past, future>>]_vars

\* C26: a batch edit from the inspector on N >= 2 selected keys (updateAll)
\* is one undoable step: a single undo afterwards restores all N keys to
\* their values before the edit.
C26_BatchEditIsOneStep ==
  [][(lastOp = "updateAll" /\ Len(inspectorSelected) >= 2 /\ lastOp' = "undo")
       => project'.layout.keys = before.project.layout.keys]_vars

\* swapSelected called with exactly two selected keys, both in the layout
SwapOfTwo ==
  /\ Len(selectedKeys) = 2
  /\ selectedKeys[1] # selectedKeys[2]
  /\ findKey(project.layout.keys, selectedKeys[1]) # 0
  /\ findKey(project.layout.keys, selectedKeys[2]) # 0
  /\ swapSelected

\* C27: with exactly two selected keys A and B in the layout, swapSelected
\* puts A at B's former (x, y) and B at A's former (x, y) and changes no
\* other field of any key (size, type, rotation, elements, key order); a
\* second swapSelected restores the original positions.
C27_SwapExchangesPositions ==
  [][SwapOfTwo =>
       LET old == project.layout.keys
           new == project'.layout.keys
           a   == findKey(old, selectedKeys[1])
           b   == findKey(old, selectedKeys[2])
       IN /\ Len(new) = Len(old)
          /\ new[a].x = old[b].x /\ new[a].y = old[b].y
          /\ new[b].x = old[a].x /\ new[b].y = old[a].y
          /\ \A i \in 1..Len(old) :
               /\ DOMAIN new[i] = DOMAIN old[i]
               /\ \A f \in DOMAIN old[i] :
                    (i \notin {a, b} \/ f \notin {"x", "y"}) => new[i][f] = old[i][f]
          /\ lastOp = "swapSelected" => new = before.project.layout.keys]_vars

\* two keys were swapped and swapped back, next to a third one
C27_Witness ==
  /\ lastOp = "swapSelected"
  /\ Len(selectedKeys) = 2
  /\ Len(past) = 2
  /\ Len(project.layout.keys) = 3
  /\ past[1].layout.keys = project.layout.keys
  /\ past[2].layout.keys # project.layout.keys

\* a drag or an arrow nudge of the selected keys while snap is enabled
SnappedMove ==
  /\ snapToGrid
  /\ \/ \E d \in DragDistances : onDragEnd(d.dx, d.dy)
     \/ \E key \in ArrowKeys, step \in NudgeSteps : onArrowKey(key, step)

\* C28: with snap-to-grid enabled and grid step g, a drag (onDragEnd ->
\* moveSelectedKeys) and an arrow nudge (nudgeSelected) snap to the same
\* lattice: after either one, the stored x and y of every moved key are
\* integer multiples of g, for every page margin.
C28_DragAndNudgeOnOneLattice ==
  [][SnappedMove =>
       \A i \in 1..Len(project'.layout.keys) :
         isSelected(project'.layout.keys[i].id)
           => /\ project'.layout.keys[i].x % gridSize = 0
              /\ project'.layout.keys[i].y % gridSize = 0]_vars

(***************************************************************************)
(* The cut sheet as rendered (checked under SpecCut)                       *)
(***************************************************************************)
\* exporters.ts:63, 245 and Sidebar.tsx:450  margin + key.x: where the
\* renderers put the left edge of a key
renderedLeft(marginMm, key) == marginMm + key.x

\* C29: in the cut sheet as rendered, every key lies horizontally inside
\* the printable area whenever the widest key fits in it: margin <= rendered
\* left edge and rendered right edge <= pageWidth - margin.
C29_CutSheetInsidePrintable ==
  LET margin    == cutOut.paper.marginMm
      pageWidth == paperSizeMm(cutOut.paper.size, cutOut.paper.orientation).width
  IN (/\ cutOut.by # "none"
      /\ cutOut.viewMode = "cut"
      /\ cutOut.keys # <<>>
      /\ cutMaxWidth(cutOut.keys) <= pageWidth - 2 * margin)
       => \A i \in 1..Len(cutOut.out) :
            /\ margin <= renderedLeft(margin, cutOut.out[i])
            /\ renderedLeft(margin, cutOut.out[i]) + cutOut.out[i].width
                 <= pageWidth - margin

====
